---- MODULE Spec2Model ----
(***************************************************************************)
(* State-machine model of the PS1 emulator core: Registers, COP0, Bus,     *)
(* Timer and the CPU's step_instruction loop.                              *)
(*                                                                         *)
(* A u32 is the pair <<hi, lo>> of its 16-bit halves (TLC's integers are   *)
(* 32-bit signed, so 0x80000000 and above do not fit in one number); a     *)
(* u16 and a u8 are plain naturals.  Option<T> is a sequence of length 0   *)
(* (None) or 1 (Some).  Result<T, E> is a record tagged "Ok" or "Err"; a   *)
(* Rust panic (panic!, todo!, expect, index out of bounds, checked         *)
(* arithmetic overflow) is a record tagged "Panic".                        *)
(***************************************************************************)
EXTENDS Integers, Sequences, FiniteSets, TLC

VARIABLES
    registers,        \* cpu.rs Registers
    cop0,             \* cop0.rs Cop0
    bus,              \* bus.rs Bus
    halted,           \* the process has panicked
    overflow_checks,  \* build profile: arithmetic overflow panics (debug) or wraps (release)
    steps,            \* number of operations performed so far
    last,             \* observation of the last operation performed
    timer,            \* timer.rs Timer, a timer on its own
    gpu               \* gpu.rs Gpu

vars == <<registers, cop0, bus, halted, overflow_checks, steps, last, timer, gpu>>

(***************************************************************************)
(* Machine arithmetic                                                      *)
(***************************************************************************)
RECURSIVE BitAndRec(_, _)
BitAndRec(a, b) ==
    IF a = 0 \/ b = 0 THEN 0
    ELSE (a % 2) * (b % 2) + 2 * BitAndRec(a \div 2, b \div 2)

NibbleAnd == [x \in 0..15 |-> [y \in 0..15 |-> BitAndRec(x, y)]]

\* a & b for a, b < 2^16, nibble by nibble.
BitAnd(a, b) ==
    NibbleAnd[a % 16][b % 16]
    + 16 * NibbleAnd[(a \div 16) % 16][(b \div 16) % 16]
    + 256 * NibbleAnd[(a \div 256) % 16][(b \div 256) % 16]
    + 4096 * NibbleAnd[(a \div 4096) % 16][(b \div 4096) % 16]

BitOr(a, b) == a + b - BitAnd(a, b)

BitXor(a, b) == a + b - 2 * BitAnd(a, b)

Pow2(n) == 2 ^ n

\* Bit n of the natural a.
Bit(a, n) == (a \div Pow2(n)) % 2

W(h, l) == <<h, l>>

Zero32 == W(0, 0)

Hi(w) == w[1]

Lo(w) == w[2]

WAnd(a, b) == W(BitAnd(a[1], b[1]), BitAnd(a[2], b[2]))

WOr(a, b) == W(BitOr(a[1], b[1]), BitOr(a[2], b[2]))

WXor(a, b) == W(BitXor(a[1], b[1]), BitXor(a[2], b[2]))

WNot(a) == W(\hFFFF - a[1], \hFFFF - a[2])

\* a < b and a > 0 on u32.
WLt(a, b) == a[1] < b[1] \/ (a[1] = b[1] /\ a[2] < b[2])

WNonZero(a) == a[1] > 0 \/ a[2] > 0

\* Bit n (0..31) of a u32.
WBit(a, n) == IF n < 16 THEN Bit(a[2], n) ELSE Bit(a[1], n - 16)

\* u32::overflowing_add: <<wrapped sum, carry out>>.
overflowing_add(a, b) ==
    LET l == a[2] + b[2]
        h == a[1] + b[1] + (l \div 65536)
    IN  <<W(h % 65536, l % 65536), h >= 65536>>

wrapping_add(a, b) == overflowing_add(a, b)[1]

\* u32::overflowing_sub: <<wrapped difference, borrow>>.
overflowing_sub(a, b) ==
    LET l == a[2] - b[2]
        bl == IF l < 0 THEN 1 ELSE 0
        h == a[1] - b[1] - bl
    IN  <<W((h + 65536) % 65536, (l + 65536) % 65536), h < 0>>

wrapping_sub(a, b) == overflowing_sub(a, b)[1]

\* "x + k" and "x - k" on u32 as the build compiles them: a panic when the
\* profile checks overflow, a wrapped value otherwise.
Ok(v) == [tag |-> "Ok", val |-> v]

Err(e) == [tag |-> "Err", exc |-> e]

Panic(m) == [tag |-> "Panic", msg |-> m]

IsOk(r) == r.tag = "Ok"

IsErr(r) == r.tag = "Err"

IsPanic(r) == r.tag = "Panic"

PlainAdd(oc, a, b) ==
    LET r == overflowing_add(a, b)
    IN  IF r[2] /\ oc THEN Panic("attempt to add with overflow") ELSE Ok(r[1])

PlainSub(oc, a, b) ==
    LET r == overflowing_sub(a, b)
    IN  IF r[2] /\ oc THEN Panic("attempt to subtract with overflow") ELSE Ok(r[1])

\* (x as i16) as i32 as u32 for the 16-bit immediate x.
SignExt16(x) == IF x >= \h8000 THEN W(\hFFFF, x) ELSE W(0, x)

\* (x as i8) as i32 as u32 for the byte x.
SignExt8(x) == IF x >= \h80 THEN W(\hFFFF, \hFF00 + x) ELSE W(0, x)

to_le_bytes(w) == <<w[2] % 256, w[2] \div 256, w[1] % 256, w[1] \div 256>>

from_le_bytes(b) == W(b[4] * 256 + b[3], b[2] * 256 + b[1])

is_multiple_of(w, n) == w[2] % n = 0

None == <<>>

Some(x) == <<x>>

is_some(o) == Len(o) = 1

\* Usize value of a u32 known to fit in 31 bits.
AsIndex(w) == w[1] * 65536 + w[2]

(***************************************************************************)
(* timer.rs                                                                *)
(***************************************************************************)
TimerNew == [counter |-> 0, mode |-> 0, target_value |-> \hFF, allow_irq |-> TRUE]

reset_after_target(t) == BitAnd(t.mode, \h8) > 0

irq_when_at_target(t) == BitAnd(t.mode, \h10) > 0

\* An irq_at_max that never asks for the IRQ.
irq_at_max_never(t) == FALSE

irq_at_max(t) == BitAnd(t.mode, \h20) > 0

is_toggle_mode(t) == BitAnd(t.mode, \h80) > 0

irq_repeat(t) == BitAnd(t.mode, \h40) > 0

toggle_int(t) ==
    IF BitAnd(t.mode, \h400) > 0
    THEN [t EXCEPT !.mode = BitAnd(@, \hFBFF)]
    ELSE [t EXCEPT !.mode = BitOr(@, \h400)]

\* The body shared by the two raising branches of Timer::tick.
TimerRaise(t) ==
    LET t1 == IF irq_repeat(t) THEN [t EXCEPT !.allow_irq = FALSE] ELSE t
    IN  IF is_toggle_mode(t1) THEN toggle_int(t1)
        ELSE [t1 EXCEPT !.mode = BitAnd(@, \hFBFF)]

\* Timer::tick: the timer after the tick and the returned IRQ flag.
TimerTick(t) ==
    LET t1 == [t EXCEPT !.counter = (@ + 1) % 65536]
        t2 == IF reset_after_target(t1)
                 /\ t1.counter = (t1.target_value + 1) % 65536
              THEN [t1 EXCEPT !.counter = 0]
              ELSE t1
    IN  IF irq_at_max(t2) /\ t2.counter = \hFFFF /\ t2.allow_irq
        THEN [timer |-> TimerRaise(t2), irq |-> TRUE]
        ELSE IF irq_when_at_target(t2) /\ t2.counter = t2.target_value /\ t2.allow_irq
        THEN [timer |-> TimerRaise(t2), irq |-> TRUE]
        ELSE [timer |-> IF ~irq_repeat(t2) THEN [t2 EXCEPT !.allow_irq = TRUE] ELSE t2,
              irq |-> FALSE]

write_to_mode(t, val) ==
    LET t1 == [t EXCEPT !.counter = 0, !.allow_irq = TRUE]
        t2 == [t1 EXCEPT !.mode = BitOr(@, \h400)]
    IN  [t2 EXCEPT !.mode = BitAnd(val, \h3FF)]

(***************************************************************************)
(* bus.rs                                                                  *)
(***************************************************************************)
KernelLen == 65536

RamLen == 2097152

ScratchpadLen == 1024

KernelRomLen == 4194304

\* A byte array is a function on the indices that hold a non-zero byte;
\* every other index holds 0 (the arrays start zeroed).
ArrGet(arr, i) == IF i \in DOMAIN arr THEN arr[i] ELSE 0

ArrPut(arr, i, v) ==
    IF v = 0 THEN [j \in DOMAIN arr \ {i} |-> arr[j]]
    ELSE [j \in DOMAIN arr \cup {i} |-> IF j = i THEN v ELSE arr[j]]

EmptyArr == [j \in {} |-> 0]

BusNew ==
    [kernel |-> EmptyArr, ram |-> EmptyArr, scratchpad |-> EmptyArr,
     kernel_rom |-> EmptyArr,
     interrupt_status |-> Zero32, interrupt_mask |-> Zero32,
     timer0 |-> TimerNew, timer1 |-> TimerNew, timer2 |-> TimerNew]

\* Bus::tick with the flags the three Timer::tick calls returned, which
\* Bus::tick drops: irqs[i] is TRUE iff some tick of timer i returned true.
RECURSIVE BusTickTrace(_, _, _)
BusTickTrace(b, cycles, irqs) ==
    IF cycles = 0 THEN [bus |-> b, irqs |-> irqs]
    ELSE LET r0 == TimerTick(b.timer0)
             r1 == TimerTick(b.timer1)
             r2 == TimerTick(b.timer2)
         IN  BusTickTrace([b EXCEPT !.timer0 = r0.timer, !.timer1 = r1.timer,
                                    !.timer2 = r2.timer],
                          cycles - 1,
                          <<irqs[1] \/ r0.irq, irqs[2] \/ r1.irq, irqs[3] \/ r2.irq>>)

tick(b, cycles) == BusTickTrace(b, cycles, <<FALSE, FALSE, FALSE>>).bus

\* Where an address falls in the match of mem_read_byte / mem_write_byte;
\* the arms that differ between the two are told apart by the callers.
\* region: the backing array and the index expression's value, or a panic
\* when the index expression underflows or leaves the array.
Index(arr, len, i) ==
    IF i >= 0 /\ i < len THEN [kind |-> "array", arr |-> arr, idx |-> i]
    ELSE [kind |-> "panic", msg |-> "index out of bounds"]

Decode(addr) ==
    LET h == addr[1]
        l == addr[2]
    IN  CASE h = \h0000 -> Index("kernel", KernelLen, l)
          [] h = \h8000 -> Index("kernel", KernelLen, BitAnd(l, \hFFFF))
          [] h = \hA000 -> Index("kernel", KernelLen, BitAnd(l, \hFFFF))
          \* addr - 0x1FFFFF: below 0 unless addr = 0x001FFFFF; the checked
          \* build panics on the subtraction, the unchecked one on the index
          [] h >= \h0010 /\ h <= \h001F ->
                Index("ram", RamLen, (h * 65536 + l) - \h1FFFFF)
          [] h >= \h8010 /\ h <= \h801F ->
                Index("ram", RamLen, (h - \h8010) * 65536 + l)
          [] h >= \hA010 /\ h <= \hA01F ->
                Index("ram", RamLen, (h - \hA010) * 65536 + l)
          [] h = \h1F00 -> [kind |-> "panic", msg |-> "todo"]
          [] h = \h9F00 -> [kind |-> "panic", msg |-> "todo"]
          [] h = \hBF00 -> [kind |-> "panic", msg |-> "todo"]
          [] h = \h1F80 /\ l <= \h03FF -> Index("scratchpad", ScratchpadLen, l)
          [] h = \h9F80 /\ l <= \h03FF -> Index("scratchpad", ScratchpadLen, l)
          [] h >= \h1FC0 /\ h <= \h1FC7 ->
                Index("kernel_rom", KernelRomLen, (h - \h1FC0) * 65536 + l)
          [] h >= \h9FC0 /\ h <= \h9FC7 ->
                Index("kernel_rom", KernelRomLen, (h - \h9FC0) * 65536 + l)
          [] h >= \hBFC0 /\ h <= \hBFC7 ->
                Index("kernel_rom", KernelRomLen, (h - \hBFC0) * 65536 + l)
          [] h = \h1F80 /\ l >= \h1070 /\ l <= \h1073 ->
                [kind |-> "i_stat", lane |-> l - \h1070]
          [] h = \h1F80 /\ l >= \h1074 /\ l <= \h1077 ->
                [kind |-> "i_mask", lane |-> l - \h1074]
          [] h = \h1F80 /\ l >= \h1100 /\ l <= \h112B /\ l % 16 <= 11 ->
                [kind |-> "timer", n |-> (l - \h1100) \div 16, off |-> l % 16]
          [] h = \hFFFE /\ l <= \h01FF -> [kind |-> "panic", msg |-> "todo"]
          [] OTHER -> [kind |-> "unmapped"]

BusErrorLoad == [kind |-> "BusErrorLoad"]

TimerOf(b, n) == CASE n = 0 -> b.timer0 [] n = 1 -> b.timer1 [] n = 2 -> b.timer2

\* The arm of mem_read_byte that the decoded address d selects.
ReadArm(b, d) ==
    CASE d.kind = "array" -> Ok(ArrGet(b[d.arr], d.idx))
      [] d.kind = "panic" -> Panic(d.msg)
      [] d.kind = "i_stat" -> Ok(to_le_bytes(b.interrupt_status)[d.lane + 1])
      \* lanes 2 and 3 mask with 0xFF00 before shifting by 16 and 24
      [] d.kind = "i_mask" ->
            Ok(CASE d.lane = 0 -> b.interrupt_mask[2] % 256
                 [] d.lane = 1 -> BitAnd(b.interrupt_mask[2], \hFF00) \div 256
                 [] d.lane = 2 -> BitAnd(b.interrupt_mask[2], \hFF00) \div 65536
                 [] d.lane = 3 -> BitAnd(b.interrupt_mask[2], \hFF00) \div 16777216)
      [] d.kind = "timer" ->
            Ok(CASE d.off = 0 -> TimerOf(b, d.n).counter % 256
                 [] d.off = 1 -> TimerOf(b, d.n).counter \div 256
                 [] d.off = 4 -> TimerOf(b, d.n).mode % 256
                 [] d.off = 5 -> TimerOf(b, d.n).mode \div 256
                 [] d.off = 8 -> TimerOf(b, d.n).target_value % 256
                 [] d.off = 9 -> TimerOf(b, d.n).target_value \div 256
                 [] OTHER -> 0)
      [] d.kind = "unmapped" -> Err(BusErrorLoad)

mem_read_byte(b, addr) == ReadArm(b, Decode(addr))

\* Result of a bus write: the tag ("Ok", "Err", "Panic") and the bus as
\* the call left it.
WOk(b) == [tag |-> "Ok", bus |-> b]

WErr(e, b) == [tag |-> "Err", exc |-> e, bus |-> b]

SetTimer(b, n, t) ==
    CASE n = 0 -> [b EXCEPT !.timer0 = t]
      [] n = 1 -> [b EXCEPT !.timer1 = t]
      [] n = 2 -> [b EXCEPT !.timer2 = t]

\* "x & 0xFF00 + val as u16" and "x & 0xFF + ((val as u16) << 8)": Rust's +
\* binds tighter than &.
LowLaneWrite(x, val) == BitAnd(x, \hFF00 + val)

HighLaneWrite(x, val) == BitAnd(x, \hFF + val * 256)

TimerWrite(b, n, off, val) ==
    CASE off = 0 -> SetTimer(b, n, [TimerOf(b, n) EXCEPT !.counter = LowLaneWrite(@, val)])
      [] off = 1 -> SetTimer(b, n, [TimerOf(b, n) EXCEPT !.counter = HighLaneWrite(@, val)])
      [] off = 4 -> SetTimer(b, n, [TimerOf(b, n) EXCEPT !.mode = LowLaneWrite(@, val)])
      [] off = 5 -> SetTimer(b, n, [TimerOf(b, n) EXCEPT !.mode = HighLaneWrite(@, val)])
      [] off = 8 ->
            SetTimer(b, n, [TimerOf(b, n) EXCEPT !.target_value = LowLaneWrite(@, val)])
      \* the arm for 0x1F801129 assigns timer1.target_value
      [] off = 9 /\ n = 2 ->
            [b EXCEPT !.timer1 = [@ EXCEPT !.target_value = LowLaneWrite(@, val)]]
      [] off = 9 /\ n # 2 ->
            SetTimer(b, n, [TimerOf(b, n) EXCEPT !.target_value = HighLaneWrite(@, val)])
      [] OTHER -> b

\* The arm of mem_write_byte that the decoded address d selects.
WriteArm(b, d, val) ==
    CASE d.kind = "array" -> WOk([b EXCEPT ![d.arr] = ArrPut(@, d.idx, val)])
      [] d.kind = "panic" -> Panic(d.msg)
      [] d.kind = "timer" -> WOk(TimerWrite(b, d.n, d.off, val))
      \* the write match has no I_STAT / I_MASK arms
      [] d.kind \in {"i_stat", "i_mask", "unmapped"} -> WErr(BusErrorLoad, b)

mem_write_byte(b, addr, val) == WriteArm(b, Decode(addr), val)

\* A byte read's result appended to the bytes read so far.
ReadNext(prev, r) == IF IsOk(r) THEN Ok(Append(prev.val, r.val)) ELSE r

\* u32::from_le_bytes / u16::from_le_bytes of the bytes read, if all were.
WordOf(r) == IF IsOk(r) THEN Ok(from_le_bytes(r.val)) ELSE r

HalfOf(r) == IF IsOk(r) THEN Ok(r.val[2] * 256 + r.val[1]) ELSE r

\* "self.mem_read_byte(a)?" after the reads before it succeeded: prev is the
\* result so far (Ok with the bytes read), a the address expression's value.
ThenRead(prev, b, a) ==
    IF ~IsOk(prev) THEN prev
    ELSE IF IsPanic(a) THEN a
    ELSE ReadNext(prev, mem_read_byte(b, a.val))

\* Bus::mem_read_word: the four byte reads in order, each address computed
\* just before its read.
mem_read_word(oc, b, addr) ==
    WordOf(ThenRead(ThenRead(ThenRead(ThenRead(Ok(<<>>), b, Ok(addr)),
                                      b, PlainAdd(oc, addr, W(0, 1))),
                             b, PlainAdd(oc, addr, W(0, 2))),
                    b, PlainAdd(oc, addr, W(0, 3))))

\* "self.mem_write_byte(addr, val)?" after the writes before it succeeded.
ThenWrite(prev, addr, val) ==
    IF IsOk(prev) THEN mem_write_byte(prev.bus, addr, val) ELSE prev

\* Bus::mem_write_word: the four byte writes in order, each to addr.
mem_write_word(b, addr, val) ==
    ThenWrite(ThenWrite(ThenWrite(mem_write_byte(b, addr, to_le_bytes(val)[1]),
                                  addr, to_le_bytes(val)[2]),
                        addr, to_le_bytes(val)[3]),
              addr, to_le_bytes(val)[4])

mem_read_halfword(oc, b, addr) ==
    HalfOf(ThenRead(ThenRead(Ok(<<>>), b, Ok(addr)), b, PlainAdd(oc, addr, W(0, 1))))

\* Bus::mem_write_halfword: both byte writes go to addr.
mem_write_halfword(b, addr, val) ==
    ThenWrite(mem_write_byte(b, addr, val % 256), addr, val \div 256)

(***************************************************************************)
(* cop0.rs                                                                 *)
(***************************************************************************)
Cop0New ==
    [sr |-> Zero32, cause |-> Zero32, epc |-> Zero32, badvaddr |-> Zero32,
     target |-> Zero32, breakpoint_program_counter |-> Zero32,
     breakpoint_data_address |-> Zero32, breakpoint_data_address_mask |-> Zero32,
     breakpoint_program_counter_mask |-> Zero32, debug |-> Zero32]

Reserved == [kind |-> "Reserved"]

register_read(c, reg) ==
    CASE reg = 3 -> Ok(c.breakpoint_program_counter)
      [] reg = 5 -> Ok(c.breakpoint_data_address)
      [] reg = 6 -> Ok(c.target)
      [] reg = 7 -> Ok(c.debug)
      [] reg = 8 -> Ok(c.badvaddr)
      [] reg = 9 -> Ok(c.breakpoint_data_address_mask)
      [] reg = 11 -> Ok(c.breakpoint_program_counter_mask)
      [] reg = 12 -> Ok(c.sr)
      [] reg = 13 -> Ok(c.cause)
      [] reg = 14 -> Ok(c.epc)
      [] reg = 15 -> Ok(W(0, \h0002))
      [] reg >= 16 /\ reg <= 31 -> Ok(Zero32)
      [] OTHER -> Err(Reserved)

\* CauseRegister::write
cause_write(cause, val) ==
    wrapping_add(WAnd(cause, WNot(W(0, \h0300))), WAnd(val, W(0, \h0300)))

\* A StatusRegister::write that stores every bit of the value.
sr_write_any(val) == val

\* StatusRegister::write
sr_write(val) == WAnd(val, W(\h507F, \hFF2F))

\* Result of Cop0::register_write: the tag and the coprocessor as left.
register_write(c, reg, val) ==
    CASE reg = 3 -> [tag |-> "Ok", cop0 |-> [c EXCEPT !.breakpoint_program_counter = val]]
      [] reg = 5 -> [tag |-> "Ok", cop0 |-> [c EXCEPT !.breakpoint_data_address = val]]
      [] reg = 7 -> [tag |-> "Ok", cop0 |-> [c EXCEPT !.debug = val]]
      [] reg = 9 -> [tag |-> "Ok", cop0 |-> [c EXCEPT !.breakpoint_data_address_mask = val]]
      [] reg = 11 ->
            [tag |-> "Ok", cop0 |-> [c EXCEPT !.breakpoint_program_counter_mask = val]]
      [] reg = 12 -> [tag |-> "Ok", cop0 |-> [c EXCEPT !.sr = sr_write(val)]]
      [] reg = 13 -> [tag |-> "Ok", cop0 |-> [c EXCEPT !.cause = cause_write(@, val)]]
      [] reg \in {6, 8, 14, 15} -> [tag |-> "Ok", cop0 |-> c]
      [] OTHER -> [tag |-> "Err", exc |-> Reserved, cop0 |-> c]

\* CauseRegister::set_exception_code: the code of each exception kind.
ExceptionCode(exception) ==
    CASE exception.kind = "Interrupt" -> 0
      [] exception.kind = "AddressErrorLoad" -> 4
      [] exception.kind = "AddressErrorStore" -> 5
      [] exception.kind = "BusErrorLoad" -> 7
      [] exception.kind = "Syscall" -> 8
      [] exception.kind = "Break" -> 9
      [] exception.kind = "Reserved" -> \hA
      [] exception.kind = "CoprocessorUnusable" -> \hB
      [] exception.kind = "ArithmeticOverflow" -> \hC

set_exception_code(cause, exception) ==
    WOr(WAnd(cause, W(\hFFFF, \hFF83)), W(0, ExceptionCode(exception) * 4))

\* A set_branch_delay that always clears BD.
set_branch_delay_clear(cause, bd) == WAnd(cause, W(\h7FFF, \hFFFF))

set_branch_delay(cause, bd) ==
    IF bd THEN WOr(cause, W(\h8000, 0)) ELSE WAnd(cause, W(\h7FFF, \hFFFF))

set_interrupt_pending(cause, ip) ==
    IF ip THEN WOr(cause, W(0, \h0400)) ELSE WAnd(cause, W(\hFFFF, \hFBFF))

\* CauseRegister::interrupt_pending
interrupt_pending(cause) == WAnd(cause, W(0, \hFF00))

\* A push_interrupt that leaves the mode stack as it is.
push_interrupt_keep(sr) == sr

push_interrupt(sr) ==
    wrapping_add(WAnd(sr, W(\hFFFF, \hFFC3)), W(0, BitAnd(sr[2], \h000F) * 4))

\* A pop_interrupt that leaves the mode stack as it is.
pop_interrupt_keep(sr) == sr

pop_interrupt(sr) ==
    wrapping_add(WAnd(sr, W(\hFFFF, \hFFF0)), W(0, BitAnd(sr[2], \h003C) \div 4))

\* StatusRegister::interrupt_mask
interrupt_mask(sr) == WAnd(sr, W(0, \hFF00))

interrupt_enabled(sr) == BitAnd(sr[2], \h1) > 0

\* A set_interrupt that leaves IEc as it is.
set_interrupt_keep(sr, ie) == sr

set_interrupt(sr, ie) ==
    IF ie THEN WOr(sr, W(0, \h1)) ELSE WAnd(sr, W(\hFFFF, \hFFFE))

set_kernel_mode(sr, ku) ==
    IF ku THEN WAnd(sr, W(\hFFFF, \hFFFD)) ELSE WOr(sr, W(0, \h2))

get_bev(sr) == BitAnd(sr[1], \h0040) > 0

(***************************************************************************)
(* cpu.rs: Registers                                                       *)
(***************************************************************************)
RegistersNew ==
    [registers |-> [i \in 0..31 |-> Zero32], program_counter |-> Zero32,
     hi |-> Zero32, lo |-> Zero32, delayed_branch |-> None]

\* Registers::read and Registers::write match on 0, then on the pattern
\* 1..31, whose upper end is exclusive; any other index panics.
RegPanic(reg) == ~(reg = 0 \/ (reg >= 1 /\ reg < 31))

read(r, reg) == IF reg = 0 THEN Zero32 ELSE r.registers[reg]

\* A write that stores into R0 as well.
write_any(r, reg, val) == [r EXCEPT !.registers[reg] = val]

write(r, reg, val) == IF reg = 0 THEN r ELSE [r EXCEPT !.registers[reg] = val]

\* Cpu::add and Cpu::addu
add(arg1, arg2) == overflowing_add(arg1, arg2)

addu(arg1, arg2) == wrapping_add(arg1, arg2)

CpuNew == [cop0 |-> Cop0New, registers |-> RegistersNew, bus |-> BusNew]

(***************************************************************************)
(* cpu.rs: more machine arithmetic for execute_opcode                      *)
(***************************************************************************)
\* a << n, a >> n and ((a as i32) >> n) as u32, for n in 0..31.
WShl(a, n) ==
    IF n < 16
    THEN W((a[1] * Pow2(n) + a[2] \div Pow2(16 - n)) % 65536, (a[2] * Pow2(n)) % 65536)
    ELSE W((a[2] * Pow2(n - 16)) % 65536, 0)

WShr(a, n) ==
    IF n < 16
    THEN W(a[1] \div Pow2(n), a[2] \div Pow2(n) + (a[1] % Pow2(n)) * Pow2(16 - n))
    ELSE W(0, a[1] \div Pow2(n - 16))

WSar(a, n) ==
    IF a[1] < \h8000 THEN WShr(a, n)
    ELSE W(\hFFFF - WShr(W(\hFFFF - a[1], \hFFFF - a[2]), n)[1],
           \hFFFF - WShr(W(\hFFFF - a[1], \hFFFF - a[2]), n)[2])

IsNeg(a) == a[1] >= \h8000

\* (a as i32) < (b as i32)
SLt(a, b) == WLt(WXor(a, W(\h8000, 0)), WXor(b, W(\h8000, 0)))

WNeg(a) == wrapping_add(WNot(a), W(0, 1))

WAbs(a) == IF IsNeg(a) THEN WNeg(a) ELSE a

\* Unsigned division of the u32 n by the u32 d # 0: <<quotient, remainder>>.
\* Values below 2^31 are divided as integers; 2^31 = q1 * d + r1 + 1 carries
\* the top bit of n.
FromInt(x) == W(x \div 65536, x % 65536)

UDivMod(n, d) ==
    IF d[1] >= \h8000
    THEN IF WLt(n, d) THEN <<Zero32, n>> ELSE <<W(0, 1), wrapping_sub(n, d)>>
    ELSE IF d = W(0, 1) THEN <<n, Zero32>>
    ELSE LET dd == AsIndex(d)
         IN  IF n[1] < \h8000
             THEN <<FromInt(AsIndex(n) \div dd), FromInt(AsIndex(n) % dd)>>
             ELSE LET m == AsIndex(W(n[1] - \h8000, n[2]))
                      q1 == 2147483647 \div dd
                      r1 == 2147483647 % dd
                      s == ((r1 + 1) - dd) + (m % dd)
                  IN  IF s >= 0
                      THEN <<FromInt(q1 + (m \div dd) + 1), FromInt(s)>>
                      ELSE <<FromInt(q1 + (m \div dd)), FromInt(s + dd)>>

udiv(n, d) == UDivMod(n, d)[1]

urem(n, d) == UDivMod(n, d)[2]

\* i32 division and remainder (truncating) of a by b, b # 0 and not MIN / -1.
sdiv(a, b) ==
    LET q == udiv(WAbs(a), WAbs(b))
    IN  IF IsNeg(a) # IsNeg(b) THEN WNeg(q) ELSE q

srem(a, b) ==
    LET r == urem(WAbs(a), WAbs(b))
    IN  IF IsNeg(a) THEN WNeg(r) ELSE r

\* The 64-bit product of two u32 as <<hi word, lo word>>, by 8-bit limbs.
RECURSIVE MulCols(_, _, _, _, _)
MulCols(x, y, k, carry, acc) ==
    IF k > 7 THEN acc
    ELSE LET col == carry
                    + (IF k <= 3 THEN x[1] * y[k + 1] ELSE 0)
                    + (IF k >= 1 /\ k <= 4 THEN x[2] * y[k] ELSE 0)
                    + (IF k >= 2 /\ k <= 5 THEN x[3] * y[k - 1] ELSE 0)
                    + (IF k >= 3 /\ k <= 6 THEN x[4] * y[k - 2] ELSE 0)
         IN  MulCols(x, y, k + 1, col \div 256, Append(acc, col % 256))

umul64(a, b) ==
    LET p == MulCols(to_le_bytes(a), to_le_bytes(b), 0, 0, <<>>)
    IN  <<from_le_bytes(<<p[5], p[6], p[7], p[8]>>),
          from_le_bytes(<<p[1], p[2], p[3], p[4]>>)>>

\* (a as i32 as i64 * b as i32 as i64) as u64
smul64(a, b) ==
    LET u == umul64(a, b)
        h1 == IF IsNeg(a) THEN wrapping_sub(u[1], b) ELSE u[1]
        h2 == IF IsNeg(b) THEN wrapping_sub(h1, a) ELSE h1
    IN  <<h2, u[2]>>

(***************************************************************************)
(* cpu.rs: execute_opcode, the match on the instruction word               *)
(***************************************************************************)
\* lo <= opcode <= hi for bounds whose low halves are 0x0000 and 0xFFFF.
HiIn(op, lo, hi) == op[1] >= lo /\ op[1] <= hi

\* op & mask == val for val < 2^16.
Masked(op, maskh, maskl, val) == BitAnd(op[1], maskh) = 0 /\ BitAnd(op[2], maskl) = val

\* The first arm of execute_opcode's match that the word falls in, the arms
\* taken in source order ("PANIC": an arm whose body is panic! or todo!).
Arm(op) ==
    CASE HiIn(op, \h2000, \h20FF) -> "ADDI"
      [] HiIn(op, \h2100, \h21FF) -> "ADDIU"
      [] HiIn(op, \h3000, \h33FF) -> "ANDI"
      [] HiIn(op, \h1000, \h12FF) \/ op = W(\h1300, \h0000) -> "BEQ"
      [] HiIn(op, \h0400, \h07FF) -> "REGIMM"
      [] HiIn(op, \h1C00, \h1FFF) -> "BGTZ"
      [] HiIn(op, \h1400, \h17FF) -> "BNE"
      [] HiIn(op, \h0800, \h0BFF) -> "JUMP"
      [] HiIn(op, \h0C00, \h0FFF) -> "JAL"
      [] HiIn(op, \h8000, \h83FF) -> "LB"
      [] HiIn(op, \h9000, \h93FF) -> "LBU"
      [] HiIn(op, \h8400, \h87FF) -> "LH"
      [] HiIn(op, \h9400, \h97FF) -> "LHU"
      [] HiIn(op, \h3C00, \h3C1F) -> "LUI"
      [] HiIn(op, \h8C00, \h8FFF) -> "LW"
      [] HiIn(op, \h8800, \h8BFF) -> "LWL"
      [] HiIn(op, \h9800, \h9BFF) -> "LWR"
      [] HiIn(op, \h3400, \h37FF) -> "ORI"
      [] HiIn(op, \hA000, \hA3FF) -> "SB"
      [] HiIn(op, \hA400, \hA7FF) -> "SH"
      [] HiIn(op, \h2800, \h2BFF) -> "SLTI"
      [] HiIn(op, \h2C00, \h2FFF) -> "SLTIU"
      [] HiIn(op, \hAC00, \hAFFF) -> "SW"
      [] HiIn(op, \hA800, \hABFF) -> "SWL"
      [] HiIn(op, \hB800, \hBBFF) -> "SWR"
      [] HiIn(op, \h3800, \h3BFF) -> "XORI"
      \* CFC0..CFC3
      [] HiIn(op, \h4040, \h405F) \/ HiIn(op, \h4440, \h445F)
         \/ HiIn(op, \h4840, \h485F) \/ HiIn(op, \h4C40, \h4C5F) -> "PANIC"
      [] op = W(\h4200, \h0010) -> "RFE"
      [] op \in {W(\h4200, \h0008), W(\h4200, \h0001), W(\h4200, \h0002),
                 W(\h4200, \h0006)} -> "TLB"
      \* COP1..COP3
      [] HiIn(op, \h4600, \h47FF) \/ HiIn(op, \h4A00, \h4BFF)
         \/ HiIn(op, \h4E00, \h4FFF) -> "PANIC"
      \* CTC0..CTC3
      [] HiIn(op, \h40C0, \h40DF) \/ HiIn(op, \h44C0, \h44DF)
         \/ HiIn(op, \h48C0, \h48DF) \/ HiIn(op, \h4CC0, \h4CDF) -> "PANIC"
      \* LWC0..LWC3
      [] HiIn(op, \hC000, \hCFFF) -> "PANIC"
      [] HiIn(op, \h4000, \h401F) /\ BitAnd(op[2], \h07FF) = 0 -> "MFC0"
      \* MFC1..MFC3
      [] HiIn(op, \h4400, \h441F) \/ HiIn(op, \h4800, \h481F)
         \/ HiIn(op, \h4C00, \h4C1F) -> "PANIC"
      [] HiIn(op, \h4080, \h409F) /\ BitAnd(op[2], \h07FF) = 0 -> "MTC0"
      \* MTC1..MTC3
      [] HiIn(op, \h4480, \h449F) \/ HiIn(op, \h4880, \h489F)
         \/ HiIn(op, \h4C80, \h4C9F) -> "PANIC"
      [] HiIn(op, \hE000, \hE3FF) -> "SWC0"
      \* SWC1..SWC3
      [] HiIn(op, \hE400, \hEFFF) -> "PANIC"
      [] Masked(op, \hFC00, \h003F, \h20) -> "ADD"
      [] Masked(op, \hFC00, \h003F, \h21) -> "ADDU"
      [] Masked(op, \hFC00, \h003F, \h24) -> "AND"
      [] Masked(op, \hFC00, \h003F, \h0D) -> "BREAK"
      [] Masked(op, \hFC00, \h003F, \h1A) -> "DIV"
      [] Masked(op, \hFC00, \h003F, \h1B) -> "DIVU"
      [] Masked(op, \hFC00, \h003F, \h09) -> "JALR"
      [] Masked(op, \hFC00, \h003F, \h08) -> "JR"
      [] Masked(op, \hFFFF, \h07FF, \h10) -> "MFHI"
      [] Masked(op, \hFFFF, \h07FF, \h12) -> "MFLO"
      [] Masked(op, \hFC1F, \hFFFF, \h11) -> "MTHI"
      [] Masked(op, \hFC1F, \hFFFF, \h13) -> "MTLO"
      [] Masked(op, \hFC00, \hFFFF, \h18) -> "MULT"
      [] Masked(op, \hFC00, \hFFFF, \h19) -> "MULTU"
      [] Masked(op, \hFC00, \h07FF, \h27) -> "NOR"
      [] Masked(op, \hFC00, \h07FF, \h25) -> "OR"
      [] Masked(op, \hFFE0, \h003F, \h00) -> "SLL"
      [] Masked(op, \hFC00, \h07FF, \h04) -> "SLLV"
      [] Masked(op, \hFC00, \h07FF, \h2A) -> "SLT"
      [] Masked(op, \hFC00, \h07FF, \h4B) -> "SLTU"
      [] Masked(op, \hFFE0, \h003F, \h03) -> "SRA"
      [] Masked(op, \hFC00, \h07FF, \h07) -> "SRAV"
      [] Masked(op, \hFFE0, \h003F, \h02) -> "SRL"
      [] Masked(op, \hFC00, \h07FF, \h06) -> "SRLV"
      [] Masked(op, \hFC00, \h07FF, \h22) -> "SUB"
      [] Masked(op, \hFC00, \h07FF, \h23) -> "SUBU"
      [] Masked(op, \hFC00, \h003F, \h0C) -> "SYSCALL"
      [] Masked(op, \hFC00, \h07FF, \h26) -> "XOR"
      [] OTHER -> "PANIC"

\* (opcode & 0x03E00000) >> 21, (opcode & 0x001F0000) >> 16,
\* (opcode & 0x0000F800) >> 11, (opcode & 0x000007C0) >> 6, opcode & 0x0000FFFF
FieldRs(op) == (op[1] \div 32) % 32

FieldRt(op) == op[1] % 32

FieldRd(op) == op[2] \div 2048

FieldSa(op) == (op[2] \div 64) % 32

FieldImm(op) == op[2]

\* Result of execute_opcode: the tag, the exception of an Err, and the CPU
\* as the instruction left it.
XOk(c) == [tag |-> "Ok", cpu |-> c]

XErr(e, c) == [tag |-> "Err", exc |-> e, cpu |-> c]

Impossible == Panic("Impossible")

ArithmeticOverflow == [kind |-> "ArithmeticOverflow"]

CoprocessorUnusable == [kind |-> "CoprocessorUnusable"]

Syscall == [kind |-> "Syscall"]

Break == [kind |-> "Break"]

Interrupt == [kind |-> "Interrupt"]

AddressErrorLoad(a) == [kind |-> "AddressErrorLoad", addr |-> a]

AddressErrorStore(a) == [kind |-> "AddressErrorStore", addr |-> a]

\* self.registers.write(reg, val) on the CPU record.
SetReg(c, reg, val) == [c EXCEPT !.registers = write(@, reg, val)]

GetReg(c, reg) == read(c.registers, reg)

\* Some(self.registers.program_counter.wrapping_add(((imm as i32) << 2) as u32))
BranchTarget(c, op) ==
    wrapping_add(c.registers.program_counter, WShl(SignExt16(FieldImm(op)), 2))

SetBranch(c, target) == [c EXCEPT !.registers.delayed_branch = Some(target)]

\* base register + sign-extended offset
EffAddr(c, op) == wrapping_add(GetReg(c, FieldRs(op)), SignExt16(FieldImm(op)))

\* ---- immediate arithmetic and logic ----
ExecADDI(c, op) ==
    LET reg == FieldRs(op)
        target == FieldRt(op)
        r == add(GetReg(c, reg), SignExt16(FieldImm(op)))
        c1 == SetReg(c, target, r[1])
    IN  IF RegPanic(reg) \/ RegPanic(target) THEN Impossible
        ELSE IF r[2] THEN XErr(ArithmeticOverflow, c1) ELSE XOk(c1)

ExecADDIU(c, op) ==
    LET reg == FieldRs(op)
        target == FieldRt(op)
    IN  IF RegPanic(reg) \/ RegPanic(target) THEN Impossible
        ELSE XOk(SetReg(c, target, addu(GetReg(c, reg), SignExt16(FieldImm(op)))))

\* ANDI, ORI, XORI, SLTI, SLTIU: rt := f(rs, immediate)
ExecImm(c, op, val) ==
    IF RegPanic(FieldRs(op)) \/ RegPanic(FieldRt(op)) THEN Impossible
    ELSE XOk(SetReg(c, FieldRt(op), val))

ExecANDI(c, op) == ExecImm(c, op, WAnd(GetReg(c, FieldRs(op)), SignExt16(FieldImm(op))))

ExecORI(c, op) == ExecImm(c, op, WOr(GetReg(c, FieldRs(op)), W(0, FieldImm(op))))

ExecXORI(c, op) == ExecImm(c, op, WXor(GetReg(c, FieldRs(op)), W(0, FieldImm(op))))

ExecSLTI(c, op) ==
    ExecImm(c, op, IF SLt(GetReg(c, FieldRs(op)), SignExt16(FieldImm(op)))
                   THEN W(0, 1) ELSE Zero32)

ExecSLTIU(c, op) ==
    ExecImm(c, op, IF WLt(GetReg(c, FieldRs(op)), SignExt16(FieldImm(op)))
                   THEN W(0, 1) ELSE Zero32)

ExecLUI(c, op) ==
    IF RegPanic(FieldRt(op)) THEN Impossible
    ELSE XOk(SetReg(c, FieldRt(op), W(FieldImm(op), 0)))

\* ---- branches and jumps ----
ExecBEQ(c, op) ==
    IF RegPanic(FieldRs(op)) \/ RegPanic(FieldRt(op)) THEN Impossible
    ELSE IF GetReg(c, FieldRs(op)) = GetReg(c, FieldRt(op))
         THEN XOk(SetBranch(c, BranchTarget(c, op)))
         ELSE XOk(c)

ExecBNE(c, op) ==
    IF RegPanic(FieldRs(op)) \/ RegPanic(FieldRt(op)) THEN Impossible
    ELSE IF GetReg(c, FieldRs(op)) # GetReg(c, FieldRt(op))
         THEN XOk(SetBranch(c, BranchTarget(c, op)))
         ELSE XOk(c)

\* BGEZ, BGEZAL, BLTZ, BLTZAL
ExecREGIMM(oc, c, op) ==
    LET reg == FieldRs(op)
        name == FieldRt(op)
        link == PlainAdd(oc, c.registers.program_counter, W(0, 8))
        c1 == IF BitAnd(name, \h10) > 0
              THEN [c EXCEPT !.registers.registers[31] = link.val]
              ELSE c
    IN  IF BitAnd(name, \h10) > 0 /\ IsPanic(link) THEN link
        ELSE IF RegPanic(reg) THEN Impossible
        ELSE IF (BitAnd(name, \h1) > 0) = (~IsNeg(GetReg(c1, reg)))
             THEN XOk(SetBranch(c1, BranchTarget(c1, op)))
             ELSE XOk(c1)

ExecBGTZ(c, op) ==
    LET reg == FieldRs(op)
    IN  IF RegPanic(reg) THEN Impossible
        ELSE IF ~IsNeg(GetReg(c, reg)) /\ WNonZero(GetReg(c, reg))
             THEN XOk(SetBranch(c, BranchTarget(c, op)))
             ELSE XOk(c)

\* (self.registers.program_counter & 0x0FFFFFFF) | ((opcode & 0x03FFFFFF) << 2)
JumpTarget(c, op) ==
    WOr(WAnd(c.registers.program_counter, W(\h0FFF, \hFFFF)),
        WShl(WAnd(op, W(\h03FF, \hFFFF)), 2))

ExecJUMP(c, op) == XOk(SetBranch(c, JumpTarget(c, op)))

ExecJAL(oc, c, op) ==
    LET link == PlainAdd(oc, c.registers.program_counter, W(0, 8))
        c1 == [c EXCEPT !.registers.registers[31] = link.val]
    IN  IF IsPanic(link) THEN link ELSE XOk(SetBranch(c1, JumpTarget(c1, op)))

ExecJALR(oc, c, op) ==
    LET source_reg == FieldRs(op)
        delay_reg == FieldRd(op)
        addr == GetReg(c, source_reg)
        link == PlainAdd(oc, c.registers.program_counter, W(0, 8))
    IN  IF RegPanic(source_reg) THEN Impossible
        ELSE IF IsPanic(link) THEN link
        ELSE IF RegPanic(delay_reg) THEN Impossible
        ELSE XOk(SetBranch(SetReg(c, delay_reg, link.val), addr))

ExecJR(c, op) ==
    LET source_reg == FieldRs(op)
        target == GetReg(c, source_reg)
    IN  IF RegPanic(source_reg) THEN Impossible
        ELSE IF BitAnd(target[2], \h3) = 0 THEN XOk(SetBranch(c, target))
        ELSE XOk(c)

\* ---- loads ----
\* The value a load arm writes to rt, from the bus read's value v:
\* as i8 / as i16 sign-extended, zero-extended, or merged with rt's bytes g
\* by the address's low two bits k (LWL, LWR).
Loaded(how, v, g, k) ==
    CASE how = "LB" -> SignExt8(v)
      [] how = "LBU" -> W(0, v)
      [] how = "LH" -> SignExt16(v)
      [] how = "LHU" -> W(0, v)
      [] how = "LW" -> v
      [] how = "LWL" ->
            (CASE k = 0 -> v
               [] k = 1 -> from_le_bytes(<<to_le_bytes(v)[2], to_le_bytes(v)[3],
                                           to_le_bytes(v)[4], g[4]>>)
               [] k = 2 -> from_le_bytes(<<to_le_bytes(v)[3], to_le_bytes(v)[4],
                                           g[3], g[4]>>)
               [] k = 3 -> from_le_bytes(<<to_le_bytes(v)[4], g[2], g[3], g[4]>>))
      [] how = "LWR" ->
            (CASE k = 0 -> from_le_bytes(<<g[1], g[2], g[3], to_le_bytes(v)[1]>>)
               [] k = 1 -> from_le_bytes(<<g[1], g[2], to_le_bytes(v)[1],
                                           to_le_bytes(v)[2]>>)
               [] k = 2 -> from_le_bytes(<<g[1], to_le_bytes(v)[1], to_le_bytes(v)[2],
                                           to_le_bytes(v)[3]>>)
               [] k = 3 -> v)

\* A load arm: read(base), the bus read r with "?", then write(rt, value).
ExecLoad(c, op, how, addr, r) ==
    IF RegPanic(FieldRs(op)) THEN Impossible
    ELSE IF IsPanic(r) THEN r
    ELSE IF IsErr(r) THEN XErr(r.exc, c)
    ELSE IF RegPanic(FieldRt(op)) THEN Impossible
    ELSE XOk(SetReg(c, FieldRt(op),
                    Loaded(how, r.val, to_le_bytes(GetReg(c, FieldRt(op))),
                           addr[2] % 4)))

ExecLB(c, op) == ExecLoad(c, op, "LB", EffAddr(c, op), mem_read_byte(c.bus, EffAddr(c, op)))

ExecLBU(c, op) ==
    ExecLoad(c, op, "LBU", EffAddr(c, op), mem_read_byte(c.bus, EffAddr(c, op)))

ExecLH(oc, c, op) ==
    ExecLoad(c, op, "LH", EffAddr(c, op), mem_read_halfword(oc, c.bus, EffAddr(c, op)))

ExecLHU(oc, c, op) ==
    ExecLoad(c, op, "LHU", EffAddr(c, op), mem_read_halfword(oc, c.bus, EffAddr(c, op)))

ExecLW(oc, c, op) ==
    ExecLoad(c, op, "LW", EffAddr(c, op), mem_read_word(oc, c.bus, EffAddr(c, op)))

\* LWL and LWR read the word at addr & 0xFFFFFFFC.
ExecLWL(oc, c, op) ==
    ExecLoad(c, op, "LWL", EffAddr(c, op),
             mem_read_word(oc, c.bus, WAnd(EffAddr(c, op), W(\hFFFF, \hFFFC))))

ExecLWR(oc, c, op) ==
    ExecLoad(c, op, "LWR", EffAddr(c, op),
             mem_read_word(oc, c.bus, WAnd(EffAddr(c, op), W(\hFFFF, \hFFFC))))

\* ---- stores ----
\* A store arm's tail: the bus write's result carried to the CPU.
ExecStore(c, w) ==
    IF IsPanic(w) THEN w
    ELSE IF IsErr(w) THEN XErr(w.exc, [c EXCEPT !.bus = w.bus])
    ELSE XOk([c EXCEPT !.bus = w.bus])

ExecSB(c, op) ==
    IF RegPanic(FieldRs(op)) \/ RegPanic(FieldRt(op)) THEN Impossible
    ELSE ExecStore(c, mem_write_byte(c.bus, EffAddr(c, op),
                                     GetReg(c, FieldRt(op))[2] % 256))

ExecSH(c, op) ==
    LET addr == EffAddr(c, op)
    IN  IF RegPanic(FieldRs(op)) THEN Impossible
        ELSE IF is_multiple_of(addr, 2)
        THEN IF RegPanic(FieldRt(op)) THEN Impossible
             ELSE ExecStore(c, mem_write_halfword(c.bus, addr, GetReg(c, FieldRt(op))[2]))
        ELSE XErr(AddressErrorStore(addr), c)

ExecSW(c, op) ==
    LET addr == EffAddr(c, op)
    IN  IF RegPanic(FieldRs(op)) THEN Impossible
        ELSE IF is_multiple_of(addr, 4)
        THEN IF RegPanic(FieldRt(op)) THEN Impossible
             ELSE ExecStore(c, mem_write_word(c.bus, addr, GetReg(c, FieldRt(op))))
        ELSE XErr(AddressErrorStore(addr), c)

\* Byte writes in order, each followed by "?": ws is a sequence of
\* <<address, byte>>.
RECURSIVE WriteBytes(_, _)
WriteBytes(prev, ws) ==
    IF ws = <<>> \/ ~IsOk(prev) THEN prev
    ELSE WriteBytes(mem_write_byte(prev.bus, ws[1][1], ws[1][2]), Tail(ws))

ExecSWL(c, op) ==
    LET addr == EffAddr(c, op)
        b == to_le_bytes(GetReg(c, FieldRt(op)))
        k == addr[2] % 4
        all == <<<<addr, b[1]>>, <<wrapping_add(addr, W(0, 1)), b[2]>>,
                 <<wrapping_add(addr, W(0, 2)), b[3]>>,
                 <<wrapping_add(addr, W(0, 3)), b[4]>>>>
    IN  IF RegPanic(FieldRs(op)) \/ RegPanic(FieldRt(op)) THEN Impossible
        ELSE ExecStore(c, WriteBytes(WOk(c.bus), SubSeq(all, 1, 4 - k)))

ExecSWR(c, op) ==
    LET addr == EffAddr(c, op)
        b == to_le_bytes(GetReg(c, FieldRt(op)))
        k == addr[2] % 4
        all == <<<<addr, b[4]>>, <<wrapping_sub(addr, W(0, 1)), b[3]>>,
                 <<wrapping_sub(addr, W(0, 2)), b[2]>>,
                 <<wrapping_sub(addr, W(0, 3)), b[1]>>>>
    IN  IF RegPanic(FieldRs(op)) \/ RegPanic(FieldRt(op)) THEN Impossible
        ELSE ExecStore(c, WriteBytes(WOk(c.bus), SubSeq(all, 1, k + 1)))

\* ---- coprocessor 0 ----
ExecRFE(c) == XOk([c EXCEPT !.cop0.sr = pop_interrupt(@)])

\* if let Ok(val) = self.cop0.register_read(rd)
ExecMFC0Read(c, op, r) ==
    IF IsOk(r)
    THEN IF RegPanic(FieldRt(op)) THEN Impossible
         ELSE XOk(SetReg(c, FieldRt(op), r.val))
    ELSE XErr(CoprocessorUnusable, c)

ExecMFC0(c, op) == ExecMFC0Read(c, op, register_read(c.cop0, FieldRd(op)))

\* self.cop0.register_write(rd, self.registers.read(rt))?
ExecMTC0Write(c, w) ==
    IF IsOk(w) THEN XOk([c EXCEPT !.cop0 = w.cop0])
    ELSE XErr(w.exc, [c EXCEPT !.cop0 = w.cop0])

ExecMTC0(c, op) ==
    IF RegPanic(FieldRt(op)) THEN Impossible
    ELSE ExecMTC0Write(c, register_write(c.cop0, FieldRd(op), GetReg(c, FieldRt(op))))

\* ---- SPECIAL ----
\* rd := f(rs, rt) for the three-register arms.
Exec3(c, op, val) ==
    IF RegPanic(FieldRs(op)) \/ RegPanic(FieldRt(op)) \/ RegPanic(FieldRd(op))
    THEN Impossible
    ELSE XOk(SetReg(c, FieldRd(op), val))

\* rd := f(rt, sa) for the shifts by immediate.
ExecShift(c, op, val) ==
    IF RegPanic(FieldRt(op)) \/ RegPanic(FieldRd(op)) THEN Impossible
    ELSE XOk(SetReg(c, FieldRd(op), val))

Rs(c, op) == GetReg(c, FieldRs(op))

Rt(c, op) == GetReg(c, FieldRt(op))

ExecADD(c, op) ==
    LET r == add(Rs(c, op), Rt(c, op))
        c1 == SetReg(c, FieldRd(op), r[1])
    IN  IF RegPanic(FieldRs(op)) \/ RegPanic(FieldRt(op)) \/ RegPanic(FieldRd(op))
        THEN Impossible
        ELSE IF r[2] THEN XErr(ArithmeticOverflow, c1) ELSE XOk(c1)

ExecADDU(c, op) == Exec3(c, op, addu(Rs(c, op), Rt(c, op)))

ExecAND(c, op) == Exec3(c, op, WAnd(Rs(c, op), Rt(c, op)))

ExecDIV(c, op) ==
    LET dividend == Rs(c, op)
        divisor == Rt(c, op)
    IN  IF RegPanic(FieldRs(op)) \/ RegPanic(FieldRt(op)) THEN Impossible
        ELSE IF divisor = Zero32 THEN XOk([c EXCEPT !.registers.hi = dividend])
        ELSE IF dividend = W(\h8000, 0) /\ divisor = W(\hFFFF, \hFFFF)
        THEN Panic("attempt to divide with overflow")
        ELSE XOk([c EXCEPT !.registers.lo = sdiv(dividend, divisor),
                           !.registers.hi = srem(dividend, divisor)])

ExecDIVU(c, op) ==
    LET dividend == Rs(c, op)
        divisor == Rt(c, op)
    IN  IF RegPanic(FieldRs(op)) \/ RegPanic(FieldRt(op)) THEN Impossible
        ELSE IF divisor = Zero32 THEN Panic("attempt to divide by zero")
        ELSE XOk([c EXCEPT !.registers.lo = udiv(dividend, divisor),
                           !.registers.hi = urem(dividend, divisor)])

ExecMFHI(c, op) ==
    IF RegPanic(FieldRd(op)) THEN Impossible
    ELSE XOk(SetReg(c, FieldRd(op), c.registers.hi))

ExecMFLO(c, op) ==
    IF RegPanic(FieldRd(op)) THEN Impossible
    ELSE XOk(SetReg(c, FieldRd(op), c.registers.lo))

ExecMTHI(c, op) ==
    IF RegPanic(FieldRs(op)) THEN Impossible
    ELSE XOk([c EXCEPT !.registers.hi = Rs(c, op)])

ExecMTLO(c, op) ==
    IF RegPanic(FieldRs(op)) THEN Impossible
    ELSE XOk([c EXCEPT !.registers.lo = Rs(c, op)])

ExecMULT(c, op) ==
    LET product == smul64(Rs(c, op), Rt(c, op))
    IN  IF RegPanic(FieldRs(op)) \/ RegPanic(FieldRt(op)) THEN Impossible
        ELSE XOk([c EXCEPT !.registers.lo = product[2], !.registers.hi = product[1]])

ExecMULTU(c, op) ==
    LET product == umul64(Rs(c, op), Rt(c, op))
    IN  IF RegPanic(FieldRs(op)) \/ RegPanic(FieldRt(op)) THEN Impossible
        ELSE XOk([c EXCEPT !.registers.lo = product[2], !.registers.hi = product[1]])

ExecNOR(c, op) == Exec3(c, op, WNot(WOr(Rs(c, op), Rt(c, op))))

ExecOR(c, op) == Exec3(c, op, WOr(Rs(c, op), Rt(c, op)))

ExecSLL(c, op) == ExecShift(c, op, WShl(Rt(c, op), FieldSa(op)))

\* shift = read(rs) & 0x7
ExecSLLV(c, op) == Exec3(c, op, WShl(Rt(c, op), Rs(c, op)[2] % 8))

ExecSLT(c, op) ==
    Exec3(c, op, IF SLt(Rs(c, op), Rt(c, op)) THEN W(0, 1) ELSE Zero32)

ExecSLTU(c, op) ==
    Exec3(c, op, IF WLt(Rs(c, op), Rt(c, op)) THEN W(0, 1) ELSE Zero32)

ExecSRA(c, op) == ExecShift(c, op, WSar(Rt(c, op), FieldSa(op)))

ExecSRAV(c, op) == Exec3(c, op, WSar(Rt(c, op), Rs(c, op)[2] % 32))

ExecSRL(c, op) == ExecShift(c, op, WShr(Rt(c, op), FieldSa(op)))

ExecSRLV(c, op) == Exec3(c, op, WShr(Rt(c, op), Rs(c, op)[2] % 32))

\* Cpu::add(read(rs), (!read(rt)).wrapping_add(1))
ExecSUB(c, op) ==
    LET r == add(Rs(c, op), wrapping_add(WNot(Rt(c, op)), W(0, 1)))
        c1 == SetReg(c, FieldRd(op), r[1])
    IN  IF RegPanic(FieldRs(op)) \/ RegPanic(FieldRt(op)) \/ RegPanic(FieldRd(op))
        THEN Impossible
        ELSE IF r[2] THEN XErr(ArithmeticOverflow, c1) ELSE XOk(c1)

ExecSUBU(c, op) ==
    Exec3(c, op, addu(Rs(c, op), wrapping_add(WNot(Rt(c, op)), W(0, 1))))

ExecXOR(c, op) == Exec3(c, op, WXor(Rs(c, op), Rt(c, op)))

\* Cpu::execute_opcode: Ok / Err with the CPU as the arm a left it, or a panic.
ExecArm(a, oc, c, opcode) ==
    CASE a = "ADDI" -> ExecADDI(c, opcode)
      [] a = "ADDIU" -> ExecADDIU(c, opcode)
      [] a = "ANDI" -> ExecANDI(c, opcode)
      [] a = "BEQ" -> ExecBEQ(c, opcode)
      [] a = "REGIMM" -> ExecREGIMM(oc, c, opcode)
      [] a = "BGTZ" -> ExecBGTZ(c, opcode)
      [] a = "BNE" -> ExecBNE(c, opcode)
      [] a = "JUMP" -> ExecJUMP(c, opcode)
      [] a = "JAL" -> ExecJAL(oc, c, opcode)
      [] a = "LB" -> ExecLB(c, opcode)
      [] a = "LBU" -> ExecLBU(c, opcode)
      [] a = "LH" -> ExecLH(oc, c, opcode)
      [] a = "LHU" -> ExecLHU(oc, c, opcode)
      [] a = "LUI" -> ExecLUI(c, opcode)
      [] a = "LW" -> ExecLW(oc, c, opcode)
      [] a = "LWL" -> ExecLWL(oc, c, opcode)
      [] a = "LWR" -> ExecLWR(oc, c, opcode)
      [] a = "ORI" -> ExecORI(c, opcode)
      [] a = "SB" -> ExecSB(c, opcode)
      [] a = "SH" -> ExecSH(c, opcode)
      [] a = "SLTI" -> ExecSLTI(c, opcode)
      [] a = "SLTIU" -> ExecSLTIU(c, opcode)
      [] a = "SW" -> ExecSW(c, opcode)
      [] a = "SWL" -> ExecSWL(c, opcode)
      [] a = "SWR" -> ExecSWR(c, opcode)
      [] a = "XORI" -> ExecXORI(c, opcode)
      [] a = "RFE" -> ExecRFE(c)
      [] a = "TLB" -> XErr(Reserved, c)
      [] a = "MFC0" -> ExecMFC0(c, opcode)
      [] a = "MTC0" -> ExecMTC0(c, opcode)
      [] a = "SWC0" -> XErr(Reserved, c)
      [] a = "ADD" -> ExecADD(c, opcode)
      [] a = "ADDU" -> ExecADDU(c, opcode)
      [] a = "AND" -> ExecAND(c, opcode)
      [] a = "BREAK" -> XErr(Break, c)
      [] a = "DIV" -> ExecDIV(c, opcode)
      [] a = "DIVU" -> ExecDIVU(c, opcode)
      [] a = "JALR" -> ExecJALR(oc, c, opcode)
      [] a = "JR" -> ExecJR(c, opcode)
      [] a = "MFHI" -> ExecMFHI(c, opcode)
      [] a = "MFLO" -> ExecMFLO(c, opcode)
      [] a = "MTHI" -> ExecMTHI(c, opcode)
      [] a = "MTLO" -> ExecMTLO(c, opcode)
      [] a = "MULT" -> ExecMULT(c, opcode)
      [] a = "MULTU" -> ExecMULTU(c, opcode)
      [] a = "NOR" -> ExecNOR(c, opcode)
      [] a = "OR" -> ExecOR(c, opcode)
      [] a = "SLL" -> ExecSLL(c, opcode)
      [] a = "SLLV" -> ExecSLLV(c, opcode)
      [] a = "SLT" -> ExecSLT(c, opcode)
      [] a = "SLTU" -> ExecSLTU(c, opcode)
      [] a = "SRA" -> ExecSRA(c, opcode)
      [] a = "SRAV" -> ExecSRAV(c, opcode)
      [] a = "SRL" -> ExecSRL(c, opcode)
      [] a = "SRLV" -> ExecSRLV(c, opcode)
      [] a = "SUB" -> ExecSUB(c, opcode)
      [] a = "SUBU" -> ExecSUBU(c, opcode)
      [] a = "SYSCALL" -> XErr(Syscall, c)
      [] a = "XOR" -> ExecXOR(c, opcode)
      [] OTHER -> Panic("explicit panic")

execute_opcode(oc, c, opcode) == ExecArm(Arm(opcode), oc, c, opcode)

(***************************************************************************)
(* cpu.rs: handle_exception and step_instruction                           *)
(***************************************************************************)
\* Cpu::handle_exception: Ok with the CPU after the prologue, or the panic
\* of "program_counter - 4" when the build checks overflow.
handle_exception(oc, c, exception, in_delay_slot) ==
    LET epc == IF in_delay_slot
               THEN PlainSub(oc, c.registers.program_counter, W(0, 4))
               ELSE Ok(c.registers.program_counter)
        cause == set_exception_code(set_branch_delay(c.cop0.cause, in_delay_slot),
                                    exception)
        sr == set_kernel_mode(set_interrupt(push_interrupt(c.cop0.sr), FALSE), TRUE)
        badvaddr == IF exception.kind \in {"AddressErrorLoad", "AddressErrorStore"}
                    THEN exception.addr
                    ELSE c.cop0.badvaddr
        vector == IF get_bev(sr) THEN W(\hBFC0, \h0180) ELSE W(\h8000, \h0080)
    IN  IF IsPanic(epc) THEN epc
        ELSE XOk([c EXCEPT !.cop0.epc = epc.val,
                           !.cop0.cause = cause,
                           !.cop0.sr = sr,
                           !.cop0.badvaddr = badvaddr,
                           !.registers.program_counter = vector])

NoExc == [kind |-> "None"]

\* What one call of handle_exception did: who called it, with which
\* arguments, at which PC, and COP0 and PC before and after.
Delivery(source, c, exception, in_delay_slot, after) ==
    [source |-> source, exception |-> exception, in_delay_slot |-> in_delay_slot,
     pc |-> c.registers.program_counter, before |-> c.cop0,
     after |-> after.cop0, vector |-> after.registers.program_counter]

\* The observation of a step: pre is the CPU at its start; the other fields
\* say how far the step went.
Observation(c) ==
    [kind |-> "init", pre |-> c, panic |-> FALSE, msg |-> "", irq |-> FALSE,
     align |-> FALSE, fetched |-> FALSE, fetch_pc |-> Zero32, opcode |-> Zero32,
     in_delay_slot |-> FALSE, outcome |-> "None", exc |-> NoExc,
     deliveries |-> <<>>, timer_irqs |-> <<FALSE, FALSE, FALSE>>]

\* A step that ends in a panic: the process stops, the CPU is left as the
\* step found it.
StepPanic(obs, r) == [cpu |-> obs.pre, obs |-> [obs EXCEPT !.panic = TRUE, !.msg = r.msg]]

\* step_instruction, lines 150-154: x is what execute_opcode returned and h
\* what handle_exception(exception, in_delay_slot) makes of its Err.
StepCommit(obs, in_delay_slot, next_pc, x, h) ==
    IF IsPanic(x) THEN StepPanic([obs EXCEPT !.outcome = "Panic"], x)
    ELSE IF IsErr(x)
    THEN IF IsPanic(h)
         THEN StepPanic([obs EXCEPT !.outcome = "Err", !.exc = x.exc], h)
         ELSE [cpu |-> h.cpu,
               obs |-> [obs EXCEPT !.outcome = "Err", !.exc = x.exc,
                                   !.deliveries = Append(@,
                                       Delivery("execute", x.cpu, x.exc,
                                                in_delay_slot, h.cpu))]]
    ELSE [cpu |-> [x.cpu EXCEPT !.registers.program_counter = next_pc],
          obs |-> [obs EXCEPT !.outcome = "Ok"]]

StepExecuted(oc, obs, in_delay_slot, next_pc, x) ==
    StepCommit(obs, in_delay_slot, next_pc, x,
               IF IsErr(x) THEN handle_exception(oc, x.cpu, x.exc, in_delay_slot)
               ELSE x)

\* step_instruction, lines 140-150: the delayed branch is taken out of the
\* registers, the bus ticks twice (tk), the word is executed.
StepTicked(oc, c2, obs, opcode, in_delay_slot, next_pc, tk) ==
    IF IsPanic(next_pc)
    THEN StepPanic([obs EXCEPT !.in_delay_slot = in_delay_slot], next_pc)
    ELSE StepExecuted(oc, [obs EXCEPT !.in_delay_slot = in_delay_slot,
                                      !.timer_irqs = tk.irqs],
                      in_delay_slot, next_pc.val,
                      execute_opcode(oc,
                                     [c2 EXCEPT !.registers.delayed_branch = None,
                                                !.bus = tk.bus],
                                     opcode))

StepExecute(oc, c2, obs, opcode) ==
    StepTicked(oc, c2,
               [obs EXCEPT !.fetched = TRUE,
                           !.fetch_pc = c2.registers.program_counter,
                           !.opcode = opcode],
               opcode,
               is_some(c2.registers.delayed_branch),
               IF is_some(c2.registers.delayed_branch)
               THEN Ok(c2.registers.delayed_branch[1])
               ELSE PlainAdd(oc, c2.registers.program_counter, W(0, 4)),
               BusTickTrace(c2.bus, 2, <<FALSE, FALSE, FALSE>>))

\* step_instruction, lines 134-137: the fetch and its expect.
StepFetched(oc, c2, obs, fetch) ==
    IF IsPanic(fetch) THEN StepPanic(obs, fetch)
    ELSE IF IsErr(fetch) THEN StepPanic(obs, Panic("Issue with opcode"))
    ELSE StepExecute(oc, c2, obs, fetch.val)

\* step_instruction, lines 126-132: the alignment check; ha is what
\* handle_exception(AddressErrorLoad(PC), false) makes of c2.
StepAligned(oc, c2, obs, ha) ==
    IF ~is_multiple_of(c2.registers.program_counter, 4)
    THEN [cpu |-> ha.cpu,
          obs |-> [obs EXCEPT !.align = TRUE,
                              !.deliveries = Append(@,
                                  Delivery("align", c2,
                                           AddressErrorLoad(c2.registers.program_counter),
                                           FALSE, ha.cpu))]]
    ELSE StepFetched(oc, c2, obs,
                     mem_read_word(oc, c2.bus, c2.registers.program_counter))

StepAlign(oc, c2, obs) ==
    StepAligned(oc, c2, obs,
                handle_exception(oc, c2,
                                 AddressErrorLoad(c2.registers.program_counter), FALSE))

\* step_instruction, lines 116-123: the interrupt check; hirq is what
\* handle_exception(Interrupt, delayed_branch.is_some()) makes of c1.  The
\* step goes on to the alignment check either way.
StepLatched(oc, c1, obs, take, hirq) ==
    IF take /\ IsPanic(hirq) THEN StepPanic([obs EXCEPT !.irq = TRUE], hirq)
    ELSE StepAlign(oc,
                   IF take THEN hirq.cpu ELSE c1,
                   IF take
                   THEN [obs EXCEPT !.irq = TRUE,
                                    !.deliveries =
                                        <<Delivery("interrupt", c1, Interrupt,
                                                   is_some(c1.registers.delayed_branch),
                                                   hirq.cpu)>>]
                   ELSE obs)

StepLatch(oc, c1, obs) ==
    StepLatched(oc, c1, obs,
                interrupt_enabled(c1.cop0.sr)
                /\ WNonZero(WAnd(interrupt_mask(c1.cop0.sr),
                                 interrupt_pending(c1.cop0.cause))),
                handle_exception(oc, c1, Interrupt,
                                 is_some(c1.registers.delayed_branch)))

\* Cpu::step_instruction: the CPU after the step and the observation of it.
\* Lines 112-114 latch the hardware interrupt line into Cause.
step_instruction(oc, c) ==
    StepLatch(oc,
              [c EXCEPT !.cop0.cause =
                  set_interrupt_pending(@,
                      WNonZero(WAnd(c.bus.interrupt_status, c.bus.interrupt_mask)))],
              [Observation(c) EXCEPT !.kind = "step"])

(***************************************************************************)
(* gpu.rs                                                                  *)
(***************************************************************************)
GPUPARAMLIMITS == <<0, 0, 0, 1, 2, 1, 1, 0>>

WaitingForCommand == [tag |-> "WaitingForCommand"]

ReceivingParams(command, idx) ==
    [tag |-> "ReceivingParams", command |-> command, idx |-> idx]

ReceivingData(fields) == [tag |-> "ReceivingData", fields |-> fields]

GpuNew ==
    [gp0_state |-> WaitingForCommand,
     params |-> [i \in 0..15 |-> Zero32],
     vram |-> EmptyArr,
     frame_is_ready |-> FALSE,
     counter |-> 0,
     status |-> Zero32,
     command_buffer |-> <<>>]

\* What gp0_write and its helpers return: the Gpu, or a panic (todo!()).
GOk(g) == [tag |-> "Ok", gpu |-> g]

Todo == Panic("not yet implemented")

\* Gpu::cpu_to_vram_init: the copy descriptor read from params[0], params[1].
cpu_to_vram_init(g) ==
    LET width == Lo(g.params[1]) % 1024
        height == Hi(g.params[1]) % 512
    IN  ReceivingData([vram_x |-> Lo(g.params[0]) % 1024,
                       vram_y |-> Hi(g.params[0]) % 512,
                       width |-> IF width = 0 THEN 1024 ELSE width,
                       height |-> IF height = 0 THEN 512 ELSE height,
                       current_row |-> 0,
                       current_col |-> 0])

\* One turn of the loop of cpu_to_vram_process: the halfword is stored at
\* row (vram_x + current_row) & 0x1FF, column (vram_y + current_col) & 0x3FF,
\* and the column and row counters advance.  done: the last row is complete.
VramPixel(vram, fields, halfword) ==
    LET vram_row == (fields.vram_x + fields.current_row) % 512
        vram_col == (fields.vram_y + fields.current_col) % 1024
        vram_addr == 2 * (1024 * vram_row + vram_col)
        wrap == fields.current_col + 1 = fields.width
    IN  [vram |-> ArrPut(ArrPut(vram, vram_addr, halfword % 256),
                         vram_addr + 1, halfword \div 256),
         fields |-> [fields EXCEPT !.current_col = IF wrap THEN 0 ELSE @ + 1,
                                   !.current_row = IF wrap THEN @ + 1 ELSE @],
         done |-> wrap /\ fields.current_row + 1 = fields.height]

\* The second turn of the loop, after the first one (p0) did not return.
VramSecond(g, p0, word) ==
    LET p1 == VramPixel(p0.vram, p0.fields, Hi(word))
    IN  IF p1.done
        THEN GOk([g EXCEPT !.vram = p1.vram, !.gp0_state = WaitingForCommand])
        ELSE Todo

VramFirst(g, p0, word) ==
    IF p0.done THEN GOk([g EXCEPT !.vram = p0.vram, !.gp0_state = WaitingForCommand])
    ELSE VramSecond(g, p0, word)

\* Gpu::cpu_to_vram_process on a copy of the descriptor: the two halfwords
\* of the word are stored; unless the transfer ends within them, todo!().
cpu_to_vram_process(g, word, fields) ==
    VramFirst(g, VramPixel(g.vram, fields, Lo(word)), word)

\* Gpu::draw_1x1_untextured_rectangle: both bytes of the pixel are stored
\* at vram_addr, the high byte last.
draw_1x1_untextured_rectangle(g) ==
    LET command == g.params[0]
        parameter == g.params[1]
        r == (Lo(command) % 256) \div 8
        gr == (Lo(command) \div 256) \div 8
        b == (Hi(command) % 256) \div 8
        pixel == r + gr * 32 + b * 1024
        x == Lo(parameter) % 1024
        y == Hi(parameter) % 512
        vram_addr == 2 * (1024 * y + x)
    IN  [g EXCEPT !.vram = ArrPut(ArrPut(@, vram_addr, pixel % 256),
                                  vram_addr, pixel \div 256)]

\* gp0_write in WaitingForCommand: the class is val >> 29.
Gp0Command(g, val, class) ==
    IF class = 3
    THEN GOk([g EXCEPT !.params[0] = val, !.gp0_state = ReceivingParams(3, 1)])
    ELSE IF class \in {4, 5, 6}
    THEN GOk([g EXCEPT !.gp0_state = ReceivingParams(class, 0)])
    ELSE Todo

\* gp0_write in ReceivingParams: the word itself is not stored.
Gp0Params(g, command, idx) ==
    IF idx >= GPUPARAMLIMITS[command + 1]
    THEN IF command = 3
         THEN GOk([draw_1x1_untextured_rectangle(g) EXCEPT
                       !.gp0_state = cpu_to_vram_init(g)])
         ELSE IF command = 5
         THEN GOk([g EXCEPT !.gp0_state = cpu_to_vram_init(g)])
         ELSE Todo
    ELSE GOk([g EXCEPT !.gp0_state = ReceivingParams(command, idx + 1)])

\* Gpu::gp0_write
gp0_write(g, val) ==
    IF g.gp0_state.tag = "WaitingForCommand" THEN Gp0Command(g, val, Hi(val) \div 8192)
    ELSE IF g.gp0_state.tag = "ReceivingParams"
    THEN Gp0Params(g, g.gp0_state.command, g.gp0_state.idx)
    ELSE cpu_to_vram_process(g, val, g.gp0_state.fields)

\* The frame boundary in cycles.
FrameCycles == 564480

\* A tick that starts the next frame at zero.
gpu_tick_reset(g, cycles) ==
    IF g.counter + cycles >= FrameCycles
    THEN [g EXCEPT !.counter = 0, !.frame_is_ready = TRUE]
    ELSE [g EXCEPT !.counter = g.counter + cycles, !.frame_is_ready = FALSE]

\* Gpu::tick
gpu_tick(g, cycles) ==
    IF g.counter + cycles >= FrameCycles
    THEN [g EXCEPT !.counter = g.counter + cycles - FrameCycles,
                   !.frame_is_ready = TRUE]
    ELSE [g EXCEPT !.counter = g.counter + cycles, !.frame_is_ready = FALSE]

\* Gpu::gpuread
gpuread == W(\h1400, \h0000)

(***************************************************************************)
(* The CPU stepping a loaded program                                       *)
(***************************************************************************)
MaxSteps == 4

cpu == [cop0 |-> cop0, registers |-> registers, bus |-> bus]

\* The loader's image: the word w, little-endian, at index idx of a region.
LoadWord(arr, idx, w) ==
    LET b == to_le_bytes(w)
    IN  ArrPut(ArrPut(ArrPut(ArrPut(arr, idx, b[1]), idx + 1, b[2]), idx + 2, b[3]),
               idx + 3, b[4])

\* Entry point of the loaded program (KUSEG, the 64 KB kernel region).
ProgBase == W(\h0000, \h1000)

NOP == W(\h0000, \h0000)

BEQ_R0_R0_2 == W(\h1000, \h0002)

\* ADDIU R1, R0, 0x42 as the MIPS I encoding has it (primary opcode 0x09),
\* and the word of the ADDIU arm's range with rt = 1 and immediate 0x42.
ADDIU_R1_R0_42 == W(\h2401, \h0042)

ADDIU_ARM_R1_42 == W(\h2101, \h0042)

ADDI_R2_R1_1 == W(\h2022, \h0001)

ADD_R3_R1_R2 == W(\h0022, \h1820)

SUB_R3_R1_R2 == W(\h0022, \h1822)

\* ADD R3, R1, R1
ADD_R3_R1_R1 == W(\h0021, \h1820)

\* ADDU R2, R1, R1; ADDU R0, R1, R1 (destination R0); SUBU R3, R1, R2
ADDU_R2_R1_R1 == W(\h0021, \h1021)

ADDU_R0_R1_R1 == W(\h0021, \h0021)

SUBU_R3_R1_R2 == W(\h0022, \h1823)

JR_R1 == W(\h0020, \h0008)

JALR_R5_R1 == W(\h0020, \h2809)

LW_R2_R1 == W(\h8C22, \h0000)

LH_R2_R1 == W(\h8422, \h0000)

LHU_R2_R1 == W(\h9422, \h0000)

SW_R2_R1 == W(\hAC22, \h0000)

SH_R2_R1 == W(\hA422, \h0000)

SYSCALL == W(\h0000, \h000C)

BREAK == W(\h0000, \h000D)

MTC0_R1_SR == W(\h4081, \h6000)

MFC0_R2_R0 == W(\h4002, \h0000)

TLBP == W(\h4200, \h0008)

RFE == W(\h4200, \h0010)

\* The first and the second word of the program.
FirstWords ==
    {NOP, BEQ_R0_R0_2, ADDIU_ARM_R1_42, ADDI_R2_R1_1, ADD_R3_R1_R2, SUB_R3_R1_R2,
     JR_R1, JALR_R5_R1, LW_R2_R1, LH_R2_R1, LHU_R2_R1, SW_R2_R1, SH_R2_R1,
     SYSCALL, BREAK, MTC0_R1_SR, MFC0_R2_R0, RFE, TLBP,
     ADD_R3_R1_R1, ADDU_R2_R1_R1, ADDU_R0_R1_R1, SUBU_R3_R1_R2}

SecondWords ==
    {NOP, BEQ_R0_R0_2, ADDIU_R1_R0_42, ADDIU_ARM_R1_42, ADDI_R2_R1_1, SYSCALL,
     LW_R2_R1, SW_R2_R1}

\* Register contents a program has left behind when it reaches ProgBase.
R1Values ==
    {W(\h7FFF, \hFFFF), W(\hFFFF, \hFFFF), W(\h0010, \h0001), W(\h0000, \h2001),
     W(\h0000, \h2002), W(\h0000, \h2000)}

R2Values == {W(\h0000, \h0001), W(\h1122, \h3344)}

\* SR: zero, IEc with interrupt mask bit 8, the latter with BEV.
SRValues == {Zero32, W(\h0000, \h0101), W(\h0040, \h0101)}

\* Cause: zero, software interrupt bit 8 pending.
CauseValues == {Zero32, W(\h0000, \h0100)}

Init ==
    \E w0 \in FirstWords, w1 \in SecondWords, r1 \in R1Values, r2 \in R2Values,
       sr \in SRValues, cause \in CauseValues :
        /\ registers = [RegistersNew EXCEPT !.registers[1] = r1,
                                            !.registers[2] = r2,
                                            !.program_counter = ProgBase]
        /\ cop0 = [Cop0New EXCEPT !.sr = sr, !.cause = cause]
        /\ bus = [BusNew EXCEPT !.kernel =
                     LoadWord(LoadWord(EmptyArr, AsIndex(ProgBase), w0),
                              AsIndex(ProgBase) + 4, w1)]
        /\ halted = FALSE
        /\ overflow_checks \in BOOLEAN
        /\ steps = 0
        /\ last = Observation([cop0 |-> cop0, registers |-> registers, bus |-> bus])
        /\ timer = TimerNew
        /\ gpu = GpuNew

\* One call of Cpu::step_instruction by the driver's loop.
Step ==
    /\ ~halted
    /\ steps < MaxSteps
    /\ \E r \in {step_instruction(overflow_checks, cpu)} :
           /\ registers' = r.cpu.registers
           /\ cop0' = r.cpu.cop0
           /\ bus' = r.cpu.bus
           /\ halted' = r.obs.panic
           /\ last' = r.obs
    /\ steps' = steps + 1
    /\ UNCHANGED <<overflow_checks, timer, gpu>>

Next == Step

Spec == Init /\ [][Next]_vars

(***************************************************************************)
(* The Bus driven through its public interface                             *)
(***************************************************************************)
MaxBusOps == 3

\* KUSEG kernel, its KSEG0 mirror, the scratchpad, KSEG0 and KUSEG main RAM,
\* the expansion ROM, an address no arm matches, the cache control register.
BusAddrs ==
    {W(\h0000, \h2000), W(\h8000, \h2000), W(\h1F80, \h0000), W(\h8010, \h0000),
     W(\h0010, \h0000), W(\h1F00, \h0000), W(\h4000, \h0000), W(\hFFFE, \h0130)}

BusValues == {W(\h1122, \h3344), W(\hA1B2, \hC3D4)}

\* A timer as Timer::new leaves it, and one whose public mode and
\* target_value fields ask for an IRQ when the counter reaches 1.
IdleTimer == TimerNew

ArmedTimer == [TimerNew EXCEPT !.mode = \h10, !.target_value = 1]

TimerSetups ==
    {<<IdleTimer, IdleTimer, IdleTimer>>, <<ArmedTimer, IdleTimer, IdleTimer>>,
     <<IdleTimer, ArmedTimer, IdleTimer>>, <<IdleTimer, IdleTimer, ArmedTimer>>,
     <<ArmedTimer, ArmedTimer, ArmedTimer>>}

\* The observation of a bus operation; exc is the exception of an Err
\* result and pre the bus before the operation, filled in by reads and writes.
BusObservation(kind, addr, val, tag, irqs) ==
    [kind |-> kind, addr |-> addr, val |-> val, tag |-> tag, irqs |-> irqs,
     exc |-> NoExc, pre |-> BusNew]

NoIrqs == <<FALSE, FALSE, FALSE>>

InitBus ==
    \E ts \in TimerSetups :
        /\ registers = RegistersNew
        /\ cop0 = Cop0New
        /\ bus = [BusNew EXCEPT !.timer0 = ts[1], !.timer1 = ts[2], !.timer2 = ts[3]]
        /\ halted = FALSE
        /\ overflow_checks \in BOOLEAN
        /\ steps = 0
        /\ last = BusObservation("init", Zero32, Zero32, "Ok", NoIrqs)
        /\ timer = TimerNew
        /\ gpu = GpuNew

\* bus.mem_write_word(addr, val)
BusWriteWord ==
    /\ ~halted
    /\ steps < MaxBusOps
    /\ \E addr \in BusAddrs, val \in BusValues :
         \E w \in {mem_write_word(bus, addr, val)} :
            /\ bus' = IF IsPanic(w) THEN bus ELSE w.bus
            /\ halted' = IsPanic(w)
            /\ last' = [BusObservation("write_word", addr, val, w.tag, NoIrqs)
                            EXCEPT !.exc = IF IsErr(w) THEN w.exc ELSE NoExc,
                                   !.pre = bus]
    /\ steps' = steps + 1
    /\ UNCHANGED <<registers, cop0, overflow_checks, timer, gpu>>

\* bus.mem_read_word(addr)
BusReadWord ==
    /\ ~halted
    /\ steps < MaxBusOps
    /\ \E addr \in BusAddrs :
         \E r \in {mem_read_word(overflow_checks, bus, addr)} :
            /\ halted' = IsPanic(r)
            /\ last' = [BusObservation("read_word", addr,
                                       IF IsOk(r) THEN r.val ELSE Zero32, r.tag, NoIrqs)
                            EXCEPT !.exc = IF IsErr(r) THEN r.exc ELSE NoExc,
                                   !.pre = bus]
    /\ steps' = steps + 1
    /\ UNCHANGED <<registers, cop0, bus, overflow_checks, timer, gpu>>

\* bus.tick(cycles)
BusTick ==
    /\ ~halted
    /\ steps < MaxBusOps
    /\ \E cycles \in 1..2 :
         \E tk \in {BusTickTrace(bus, cycles, NoIrqs)} :
            /\ bus' = tk.bus
            /\ last' = BusObservation("tick", Zero32, W(0, cycles), "Ok", tk.irqs)
    /\ steps' = steps + 1
    /\ UNCHANGED <<registers, cop0, halted, overflow_checks, timer, gpu>>

NextBus == BusWriteWord \/ BusReadWord \/ BusTick

SpecBus == InitBus /\ [][NextBus]_vars

(***************************************************************************)
(* The register file on its own                                            *)
(***************************************************************************)
MaxRegOps == 3

RegIndices == {0, 1, 30, 31}

RegValues == {W(\h1122, \h3344), W(\hFFFF, \hFFFF)}

\* The observation of a register-file operation; pre is the file before it.
RegObservation(kind, reg, val, panic, pre) ==
    [kind |-> kind, reg |-> reg, val |-> val, panic |-> panic, pre |-> pre]

InitRegisters ==
    /\ registers = RegistersNew
    /\ cop0 = Cop0New
    /\ bus = BusNew
    /\ halted = FALSE
    /\ overflow_checks \in BOOLEAN
    /\ steps = 0
    /\ last = RegObservation("init", 0, Zero32, FALSE, RegistersNew)
    /\ timer = TimerNew
    /\ gpu = GpuNew

\* registers.write(reg, val)
RegWrite ==
    /\ ~halted
    /\ steps < MaxRegOps
    /\ \E reg \in RegIndices, val \in RegValues :
           /\ registers' = IF RegPanic(reg) THEN registers
                           ELSE write(registers, reg, val)
           /\ halted' = RegPanic(reg)
           /\ last' = RegObservation("write", reg, val, RegPanic(reg), registers)
    /\ steps' = steps + 1
    /\ UNCHANGED <<cop0, bus, overflow_checks, timer, gpu>>

\* registers.read(reg)
RegRead ==
    /\ ~halted
    /\ steps < MaxRegOps
    /\ \E reg \in RegIndices :
           /\ halted' = RegPanic(reg)
           /\ last' = RegObservation("read", reg,
                                     IF RegPanic(reg) THEN Zero32
                                     ELSE read(registers, reg),
                                     RegPanic(reg), registers)
    /\ steps' = steps + 1
    /\ UNCHANGED <<registers, cop0, bus, overflow_checks, timer, gpu>>

NextRegisters == RegWrite \/ RegRead

SpecRegisters == InitRegisters /\ [][NextRegisters]_vars

(***************************************************************************)
(* The status register's mode stack on its own                             *)
(***************************************************************************)
MaxSrOps == 3

\* Values StatusRegister::write can leave in SR (it keeps 0x507FFF2F): zero,
\* IEc, the three-deep stack fully set, KUo alone, BEV with IEc and IM8.
SrValues ==
    {Zero32, W(\h0000, \h0001), W(\h0000, \h002F), W(\h0000, \h0020),
     W(\h0000, \h000C), W(\h0040, \h0101)}

\* The observation of an SR operation: pre is SR before it, prev_kind and
\* prev_pre the same for the operation before that.
SrObservation(kind, pre, prev) ==
    [kind |-> kind, pre |-> pre, prev_kind |-> prev.kind, prev_pre |-> prev.pre]

InitSr ==
    \E sr \in SrValues :
        /\ registers = RegistersNew
        /\ cop0 = [Cop0New EXCEPT !.sr = sr]
        /\ bus = BusNew
        /\ halted = FALSE
        /\ overflow_checks \in BOOLEAN
        /\ steps = 0
        /\ last = [kind |-> "init", pre |-> sr, prev_kind |-> "init", prev_pre |-> sr]
        /\ timer = TimerNew
        /\ gpu = GpuNew

\* cop0.sr.push_interrupt()
SrPush ==
    /\ steps < MaxSrOps
    /\ cop0' = [cop0 EXCEPT !.sr = push_interrupt(@)]
    /\ last' = SrObservation("push", cop0.sr, last)
    /\ steps' = steps + 1
    /\ UNCHANGED <<registers, bus, halted, overflow_checks, timer, gpu>>

\* cop0.sr.pop_interrupt()
SrPop ==
    /\ steps < MaxSrOps
    /\ cop0' = [cop0 EXCEPT !.sr = pop_interrupt(@)]
    /\ last' = SrObservation("pop", cop0.sr, last)
    /\ steps' = steps + 1
    /\ UNCHANGED <<registers, bus, halted, overflow_checks, timer, gpu>>

\* cop0.sr.write(val)
SrWrite ==
    /\ steps < MaxSrOps
    /\ \E val \in SrValues :
           cop0' = [cop0 EXCEPT !.sr = sr_write(val)]
    /\ last' = SrObservation("write", cop0.sr, last)
    /\ steps' = steps + 1
    /\ UNCHANGED <<registers, bus, halted, overflow_checks, timer, gpu>>

NextSr == SrPush \/ SrPop \/ SrWrite

SpecSr == InitSr /\ [][NextSr]_vars

(***************************************************************************)
(* A timer on its own                                                      *)
(***************************************************************************)
MaxTimerOps == 4

\* Modes: none; IRQ at target; the same with reset after target; IRQ at max;
\* IRQ at target and at max; each of the two with the repeat bit; IRQ at max
\* in toggle mode.
TimerModes == {\h00, \h10, \h18, \h20, \h30, \h50, \h60, \hA0}

TimerTargets == {1, \hFFFF}

TimerCounters == {0, \hFFFE}

\* The observation of a timer operation: pre is the timer before it, irq
\* what tick returned, spent whether a tick since the last write_to_mode
\* (or since the start) returned true with the repeat bit off.
TimerObservation(kind, pre, irq, spent) ==
    [kind |-> kind, pre |-> pre, irq |-> irq, spent |-> spent]

InitTimer ==
    \E mode \in TimerModes, target \in TimerTargets, counter \in TimerCounters :
        /\ registers = RegistersNew
        /\ cop0 = Cop0New
        /\ bus = BusNew
        /\ halted = FALSE
        /\ overflow_checks \in BOOLEAN
        /\ steps = 0
        /\ timer = [TimerNew EXCEPT !.mode = mode, !.target_value = target,
                                    !.counter = counter]
        /\ last = TimerObservation("init", timer, FALSE, FALSE)
        /\ gpu = GpuNew

\* timer.tick()
TimerTickOnce ==
    /\ steps < MaxTimerOps
    /\ \E r \in {TimerTick(timer)} :
           /\ timer' = r.timer
           /\ last' = TimerObservation("tick", timer, r.irq,
                                       last.spent \/ (last.kind = "tick" /\ last.irq
                                                      /\ ~irq_repeat(last.pre)))
    /\ steps' = steps + 1
    /\ UNCHANGED <<registers, cop0, bus, halted, overflow_checks, gpu>>

\* timer.write_to_mode(val)
TimerWriteMode ==
    /\ steps < MaxTimerOps
    /\ \E val \in TimerModes : timer' = write_to_mode(timer, val)
    /\ last' = TimerObservation("write_to_mode", timer, FALSE, FALSE)
    /\ steps' = steps + 1
    /\ UNCHANGED <<registers, cop0, bus, halted, overflow_checks, gpu>>

NextTimer == TimerTickOnce \/ TimerWriteMode

SpecTimer == InitTimer /\ [][NextTimer]_vars

(***************************************************************************)
(* The GPU driven through its public interface                             *)
(***************************************************************************)
MaxGpuOps == 4

\* Command words of class 5 (CPU to VRAM blit), 3 (rectangle), 4 and 6.
GP0_BLIT == W(\hA000, \h0000)

GP0_RECT == W(\h60FF, \h8040)

GP0_VRAM_TO_VRAM == W(\h8000, \h0000)

GP0_VRAM_TO_CPU == W(\hC000, \h0000)

\* Parameter words (y << 16 | x) and (h << 16 | w), and a data word.
XY_0_0 == W(\h0000, \h0000)

XY_1_2 == W(\h0002, \h0001)

WH_2_1 == W(\h0001, \h0002)

DATA_BBBBAAAA == W(\hBBBB, \hAAAA)

Gp0Words ==
    {GP0_BLIT, GP0_RECT, GP0_VRAM_TO_VRAM, GP0_VRAM_TO_CPU, XY_0_0, XY_1_2, WH_2_1,
     DATA_BBBBAAAA}

\* What the public params buffer holds at the start: zeroes as Gpu::new
\* leaves it, or the descriptor words of a 2x1 copy to (0, 0) or to (1, 2).
ParamSetups == {<<Zero32, Zero32>>, <<XY_0_0, WH_2_1>>, <<XY_1_2, WH_2_1>>}

\* The observation of a GPU operation: pre is the Gpu before it, words the
\* GP0 words written so far, this one included, and cycles the sum of the
\* cycles ticked so far, filled in by the operations.
GpuObservation(kind, val, panic, pre, words) ==
    [kind |-> kind, val |-> val, panic |-> panic, pre |-> pre, words |-> words,
     cycles |-> 0]

\* Cycle counts passed to tick: the CPU's 2, half a frame and a whole frame.
TickCycles == {2, FrameCycles \div 2, FrameCycles}

InitGpu ==
    \E ps \in ParamSetups :
        /\ registers = RegistersNew
        /\ cop0 = Cop0New
        /\ bus = BusNew
        /\ halted = FALSE
        /\ overflow_checks \in BOOLEAN
        /\ steps = 0
        /\ timer = TimerNew
        /\ gpu = [GpuNew EXCEPT !.params[0] = ps[1], !.params[1] = ps[2]]
        /\ last = GpuObservation("init", Zero32, FALSE, gpu, <<>>)

\* gpu.gp0_write(val)
Gp0Write ==
    /\ ~halted
    /\ steps < MaxGpuOps
    /\ \E val \in Gp0Words :
         \E r \in {gp0_write(gpu, val)} :
            /\ gpu' = IF IsPanic(r) THEN gpu ELSE r.gpu
            /\ halted' = IsPanic(r)
            /\ last' = [GpuObservation("gp0", val, IsPanic(r), gpu,
                                       Append(last.words, val))
                            EXCEPT !.cycles = last.cycles]
    /\ steps' = steps + 1
    /\ UNCHANGED <<registers, cop0, bus, overflow_checks, timer>>

\* gpu.tick(cycles)
GpuTick ==
    /\ ~halted
    /\ steps < MaxGpuOps
    /\ \E cycles \in TickCycles :
           /\ gpu' = gpu_tick(gpu, cycles)
           /\ last' = [GpuObservation("tick", W(cycles \div 65536, cycles % 65536),
                                       FALSE, gpu, last.words)
                            EXCEPT !.cycles = last.cycles + cycles]
    /\ steps' = steps + 1
    /\ UNCHANGED <<registers, cop0, bus, halted, overflow_checks, timer>>

NextGpu == Gp0Write \/ GpuTick

SpecGpu == InitGpu /\ [][NextGpu]_vars

(***************************************************************************)
(* The CPU stepping a program with an exception handler                    *)
(***************************************************************************)
\* J 0x2000 and JAL 0x2000 (imm26 = 0x800)
J_2000 == W(\h0800, \h0800)

JAL_2000 == W(\h0C00, \h0800)

\* COP1 and COP3 operations, and a word of primary opcode 0x3F
COP1_OP == W(\h4600, \h0000)

COP3_OP == W(\h4E00, \h0000)

RESERVED_3F == W(\hFC00, \h0000)

\* ADDI R1, R16, 1; BEQ R25, R25, 2; SLTU R3, R1, R2 (funct 0x2B)
ADDI_R1_R16_1 == W(\h2201, \h0001)

BEQ_R25_R25_2 == W(\h1339, \h0002)

SLTU_R3_R1_R2 == W(\h0022, \h182B)

\* The word at the entry point; the words after it are zero (NOP).
ExecWords ==
    {NOP, J_2000, JAL_2000, COP1_OP, COP3_OP, RESERVED_3F, ADDI_R1_R16_1,
     ADDI_R2_R1_1, ADDIU_R1_R0_42, BEQ_R25_R25_2, BEQ_R0_R0_2, SLTU_R3_R1_R2,
     JR_R1, LHU_R2_R1, SH_R2_R1, SYSCALL, RFE, MTC0_R1_SR}

\* The word at the exception vector 0x80000080.
HandlerWords == {NOP, RFE, MTC0_R1_SR}

\* Entry points: the same kernel offset through KUSEG, KSEG0 and KSEG1.
ExecEntries == {W(\h0000, \h1000), W(\h8000, \h1000), W(\hA000, \h1000)}

\* R1: an aligned address no bus arm matches, timer 0's counter register,
\* and an odd value with IEc and interrupt mask bit 8.
ExecR1Values == {W(\h4000, \h0000), W(\h1F80, \h1100), W(\h0000, \h0101)}

\* SR: zero, IEc with mask bit 8 in kernel mode, the same in user mode.
ExecSRValues == {Zero32, W(\h0000, \h0101), W(\h0000, \h0103)}

InitExec ==
    \E w0 \in ExecWords, hw \in HandlerWords, pc \in ExecEntries,
       r1 \in ExecR1Values, sr \in ExecSRValues, cause \in CauseValues :
        /\ registers = [RegistersNew EXCEPT !.registers[1] = r1,
                                            !.registers[2] = W(\h0000, \h0001),
                                            !.program_counter = pc]
        /\ cop0 = [Cop0New EXCEPT !.sr = sr, !.cause = cause]
        /\ bus = [BusNew EXCEPT !.kernel =
                     LoadWord(LoadWord(EmptyArr, \h1000, w0), \h0080, hw)]
        /\ halted = FALSE
        /\ overflow_checks \in BOOLEAN
        /\ steps = 0
        /\ last = Observation([cop0 |-> cop0, registers |-> registers, bus |-> bus])
        /\ timer = TimerNew
        /\ gpu = GpuNew

NextExec == Step

SpecExec == InitExec /\ [][NextExec]_vars

(***************************************************************************)
(* The CPU executing single instructions and two-word idioms               *)
(***************************************************************************)
\* DIV R1, R2 and DIVU R1, R2
DIV_R1_R2 == W(\h0022, \h001A)

DIVU_R1_R2 == W(\h0022, \h001B)

\* SLLV / SRLV / SRAV R3, R2, R1 (rt = R2 shifted by rs = R1)
SLLV_R3_R2_R1 == W(\h0022, \h1804)

SRLV_R3_R2_R1 == W(\h0022, \h1806)

SRAV_R3_R2_R1 == W(\h0022, \h1807)

\* MFC0 R2 from COP0 register rd, MTC0 R1 to COP0 register rd
MFC0_R2(rd) == W(\h4002, rd * 2048)

MTC0_R1(rd) == W(\h4081, rd * 2048)

\* LWL R2, 3(R1); LWR R2, 0(R1); SWL R2, 3(R1); SWR R2, 0(R1)
LWL_R2_R1_3 == W(\h8822, \h0003)

LWR_R2_R1_0 == W(\h9822, \h0000)

SWL_R2_R1_3 == W(\hA822, \h0003)

SWR_R2_R1_0 == W(\hB822, \h0000)

\* The two words at the entry point.
InstrPrograms ==
    ({DIV_R1_R2, DIVU_R1_R2, SLLV_R3_R2_R1, SRLV_R3_R2_R1, SRAV_R3_R2_R1}
        \cup {MFC0_R2(rd) : rd \in {0, 1, 2, 4, 10, 12, 15, 16, 31}}
        \cup {MTC0_R1(rd) : rd \in {6, 8, 12, 13, 14, 15}}) \X {NOP}
    \cup {<<LWL_R2_R1_3, LWR_R2_R1_0>>, <<SWL_R2_R1_3, SWR_R2_R1_0>>}

\* R1: a dividend, a shift amount, a value for MTC0, or a base address in
\* the kernel area at each alignment.
InstrR1Values ==
    {W(\h0000, \h0007), W(\hFFFF, \hFFF9), W(\h8000, \h0000),
     W(\h0000, \h2000), W(\h0000, \h2001), W(\h0000, \h2002), W(\h0000, \h2003)}

\* R2: a divisor, the word shifted, the word stored, rt's previous value.
InstrR2Values ==
    {Zero32, W(\h0000, \h0002), W(\hFFFF, \hFFFF), W(\h8000, \h0001),
     W(\h1122, \h3344)}

\* COP0 as Cop0::new leaves it, and as exceptions and MTC0 writes can leave
\* it: CU0, BEV and IEp in SR; BD, IP bit 9 and code 8 in Cause.
InstrCop0s ==
    {Cop0New,
     [Cop0New EXCEPT !.sr = W(\h1040, \h0004), !.cause = W(\h8000, \h0220),
                     !.epc = W(\h0000, \h1ABC), !.badvaddr = W(\h0000, \h2001),
                     !.target = W(\h0000, \h3000)]}

\* The data the loads find at 0x2000..0x2007.
DataLow == W(\hA1B2, \hC3D4)

DataHigh == W(\h5566, \h7788)

\* Kernel memory holding the two program words and two data words.
InstrKernel(prog) ==
    LoadWord(LoadWord(LoadWord(LoadWord(EmptyArr,
        AsIndex(ProgBase), prog[1]), AsIndex(ProgBase) + 4, prog[2]),
        \h2000, DataLow), \h2004, DataHigh)

InitInstr ==
    \E prog \in InstrPrograms, r1 \in InstrR1Values, r2 \in InstrR2Values,
       c0 \in InstrCop0s :
        /\ registers = [RegistersNew EXCEPT !.registers[1] = r1,
                                            !.registers[2] = r2,
                                            !.program_counter = ProgBase]
        /\ cop0 = c0
        /\ bus = [BusNew EXCEPT !.kernel = InstrKernel(prog)]
        /\ halted = FALSE
        /\ overflow_checks \in BOOLEAN
        /\ steps = 0
        /\ last = Observation([cop0 |-> cop0, registers |-> registers, bus |-> bus])
        /\ timer = TimerNew
        /\ gpu = GpuNew

NextInstr == Step

SpecInstr == InitInstr /\ [][NextInstr]_vars

(***************************************************************************)
(* The Bus driven byte by byte                                             *)
(***************************************************************************)
MaxByteOps == 3

\* One offset in each alias of the kernel area, main RAM, the scratchpad and
\* the BIOS ROM, the last byte of the KUSEG main RAM range, and byte lanes
\* of I_STAT and I_MASK.
ByteAddrs ==
    {W(\h0000, \h0010), W(\h8000, \h0010), W(\hA000, \h0010),
     W(\h0010, \h0010), W(\h8010, \h0010), W(\hA010, \h0010), W(\h001F, \hFFFF),
     W(\h1F80, \h0010), W(\h9F80, \h0010),
     W(\h1FC0, \h0010), W(\h9FC0, \h0010), W(\hBFC0, \h0010),
     W(\h1F80, \h1070), W(\h1F80, \h1072),
     W(\h1F80, \h1074), W(\h1F80, \h1075), W(\h1F80, \h1076), W(\h1F80, \h1077)}

ByteValues == {\h5A, \hC3}

\* Values of the public interrupt_status / interrupt_mask fields.
IrqWords == {Zero32, W(\hA1B2, \hC3D4)}

\* The observation of a byte operation: pre is the bus before it.
ByteObservation(kind, addr, val, tag, pre) ==
    [kind |-> kind, addr |-> addr, val |-> val, tag |-> tag, pre |-> pre]

InitBytes ==
    \E iw \in IrqWords :
        /\ registers = RegistersNew
        /\ cop0 = Cop0New
        /\ bus = [BusNew EXCEPT !.interrupt_status = iw, !.interrupt_mask = iw]
        /\ halted = FALSE
        /\ overflow_checks \in BOOLEAN
        /\ steps = 0
        /\ last = ByteObservation("init", Zero32, 0, "Ok", bus)
        /\ timer = TimerNew
        /\ gpu = GpuNew

\* bus.mem_write_byte(addr, val)
BusWriteByte ==
    /\ ~halted
    /\ steps < MaxByteOps
    /\ \E addr \in ByteAddrs, val \in ByteValues :
         \E w \in {mem_write_byte(bus, addr, val)} :
            /\ bus' = IF IsPanic(w) THEN bus ELSE w.bus
            /\ halted' = IsPanic(w)
            /\ last' = ByteObservation("write_byte", addr, val, w.tag, bus)
    /\ steps' = steps + 1
    /\ UNCHANGED <<registers, cop0, overflow_checks, timer, gpu>>

\* bus.mem_read_byte(addr)
BusReadByte ==
    /\ ~halted
    /\ steps < MaxByteOps
    /\ \E addr \in ByteAddrs :
         \E r \in {mem_read_byte(bus, addr)} :
            /\ halted' = IsPanic(r)
            /\ last' = ByteObservation("read_byte", addr,
                                       IF IsOk(r) THEN r.val ELSE 0, r.tag, bus)
    /\ steps' = steps + 1
    /\ UNCHANGED <<registers, cop0, bus, overflow_checks, timer, gpu>>

NextBytes == BusWriteByte \/ BusReadByte

SpecBytes == InitBytes /\ [][NextBytes]_vars

(***************************************************************************)
(* The timer registers accessed through the bus one byte at a time         *)
(***************************************************************************)
MaxTimerIoOps == 2

\* Bytes 0..3 of the counter, 0..1 of the mode and 0..3 of the target of
\* each of the three timers.
TimerIoAddrs ==
    {W(\h1F80, \h1100 + n * 16 + off) : n \in 0..2, off \in {0, 1, 2, 3, 4, 5, 8, 9, 10, 11}}

\* Timers as new, and timers whose fields all differ.
TimerIoSetups ==
    {<<TimerNew, TimerNew, TimerNew>>,
     <<[TimerNew EXCEPT !.counter = \h1234, !.target_value = \hABCD, !.mode = \h0158],
       [TimerNew EXCEPT !.counter = \h2345, !.target_value = \hBCDE, !.mode = \h0030],
       [TimerNew EXCEPT !.counter = \h3456, !.target_value = \hCDEF, !.mode = \h0001]>>}

InitTimerIo ==
    \E ts \in TimerIoSetups :
        /\ registers = RegistersNew
        /\ cop0 = Cop0New
        /\ bus = [BusNew EXCEPT !.timer0 = ts[1], !.timer1 = ts[2], !.timer2 = ts[3]]
        /\ halted = FALSE
        /\ overflow_checks \in BOOLEAN
        /\ steps = 0
        /\ last = ByteObservation("init", Zero32, 0, "Ok", bus)
        /\ timer = TimerNew
        /\ gpu = GpuNew

\* bus.mem_write_byte(addr, val) on a timer register
TimerIoWriteByte ==
    /\ ~halted
    /\ steps < MaxTimerIoOps
    /\ \E addr \in TimerIoAddrs, val \in ByteValues :
         \E w \in {mem_write_byte(bus, addr, val)} :
            /\ bus' = IF IsPanic(w) THEN bus ELSE w.bus
            /\ halted' = IsPanic(w)
            /\ last' = ByteObservation("write_byte", addr, val, w.tag, bus)
    /\ steps' = steps + 1
    /\ UNCHANGED <<registers, cop0, overflow_checks, timer, gpu>>

\* bus.mem_read_byte(addr) on a timer register
TimerIoReadByte ==
    /\ ~halted
    /\ steps < MaxTimerIoOps
    /\ \E addr \in TimerIoAddrs :
         \E r \in {mem_read_byte(bus, addr)} :
            /\ halted' = IsPanic(r)
            /\ last' = ByteObservation("read_byte", addr,
                                       IF IsOk(r) THEN r.val ELSE 0, r.tag, bus)
    /\ steps' = steps + 1
    /\ UNCHANGED <<registers, cop0, bus, overflow_checks, timer, gpu>>

NextTimerIo == TimerIoWriteByte \/ TimerIoReadByte

SpecTimerIo == InitTimerIo /\ [][NextTimerIo]_vars

(***************************************************************************)
(* Properties                                                              *)
(***************************************************************************)
PC == registers.program_counter

\* The last operation was a step_instruction that returned.
Stepped == last.kind = "step" /\ ~last.panic

\* The word the program image holds at addr at the start of the last step.
PreWord(addr) == mem_read_word(FALSE, last.pre.bus, addr)

\* The bytes of the four memory regions.
Memory(b) == <<b.kernel, b.ram, b.scratchpad, b.kernel_rom>>

\* C1: a word written with mem_write_word at a mapped, writable, 4-byte
\* aligned address is what mem_read_word then reads at that address.
C1_WordRoundTrip ==
    (last.kind = "write_word" /\ is_multiple_of(last.addr, 4))
        => /\ last.tag = "Ok"
           /\ mem_read_word(overflow_checks, bus, last.addr) = Ok(last.val)

\* C2: with BEQ R0,R0,+2 at 0x1000 and ADDIU R1,R0,0x42 at 0x1004 (the MIPS
\* encoding, or the word the ADDIU arm takes), two steps from 0x1000 leave
\* PC = 0x100C and R1 = 0x42.
C2_DelaySlot ==
    (/\ steps = 2
     /\ last.kind = "step"
     /\ PreWord(ProgBase) = Ok(BEQ_R0_R0_2)
     /\ PreWord(W(\h0000, \h1004)) \in {Ok(ADDIU_R1_R0_42), Ok(ADDIU_ARM_R1_42)}
     /\ last.pre.registers.program_counter = W(\h0000, \h1004)
     /\ is_some(last.pre.registers.delayed_branch))
        => /\ ~halted
           /\ PC = W(\h0000, \h100C)
           /\ registers.registers[1] = W(\h0000, \h0042)

\* C3: a step that ends by delivering an exception leaves no delayed branch
\* behind, so the instruction at the vector is not run as a delay slot.
C3_NotCarriedAcrossException ==
    (Stepped /\ (last.align \/ last.outcome = "Err"))
        => registers.delayed_branch = None

C5_PcAligned == (Stepped /\ last.outcome = "Ok") => is_multiple_of(PC, 4)

\* C6: a step that dispatches an interrupt fetches and executes nothing,
\* changes no general register and no memory byte, and ends with PC at the
\* exception vector.
C6_InterruptShortCircuits ==
    (last.kind = "step" /\ last.irq)
        => /\ ~last.panic
           /\ ~last.fetched
           /\ registers.registers = last.pre.registers.registers
           /\ Memory(bus) = Memory(last.pre.bus)
           /\ PC = (IF get_bev(last.pre.cop0.sr) THEN W(\hBFC0, \h0180)
                    ELSE W(\h8000, \h0080))
           /\ last.deliveries[1].in_delay_slot
                  = is_some(last.pre.registers.delayed_branch)

\* The exception codes by kind.
CodeOfKind ==
    [Interrupt |-> 0, AddressErrorLoad |-> 4, AddressErrorStore |-> 5,
     BusErrorLoad |-> 7, Syscall |-> 8, Break |-> 9, Reserved |-> 10,
     CoprocessorUnusable |-> 11, ArithmeticOverflow |-> 12]

\* C7: right after an exception is delivered, PC is 0xBFC00180 if SR.BEV is
\* set and 0x80000080 otherwise, SR bits 0 and 1 are 0, SR bits 2-5 are the
\* bits 0-3 SR had before, and Cause bits 2-6 are the code of the kind.
C7_ProloguePostcondition ==
    Stepped =>
        \A i \in DOMAIN last.deliveries :
            LET d == last.deliveries[i]
            IN  /\ d.vector = (IF WBit(d.before.sr, 22) = 1 THEN W(\hBFC0, \h0180)
                               ELSE W(\h8000, \h0080))
                /\ WBit(d.after.sr, 0) = 0
                /\ WBit(d.after.sr, 1) = 0
                /\ (d.after.sr[2] \div 4) % 16 = d.before.sr[2] % 16
                /\ (d.after.cause[2] \div 4) % 32 = CodeOfKind[d.exception.kind]

\* An exception delivered with BEV set and interrupts enabled before it.
C7_Witness ==
    /\ Stepped
    /\ last.deliveries # <<>>
    /\ WBit(last.deliveries[1].before.sr, 22) = 1
    /\ WBit(last.deliveries[1].before.sr, 0) = 1
    /\ last.deliveries[1].vector = W(\hBFC0, \h0180)
    /\ WBit(last.deliveries[1].after.sr, 2) = 1

\* C8: when a timer's tick raises an IRQ during Bus::tick, its bit of the IRQ
\* status word is set: timer0 bit 4, timer1 bit 5, timer2 bit 6.
C8_TimerIrqSetsStatus ==
    last.kind = "tick" =>
        \A i \in 1..3 : last.irqs[i] => WBit(bus.interrupt_status, 3 + i) = 1

\* The effective address of the load or store the last step executed.
LastEffAddr ==
    wrapping_add(read(last.pre.registers, FieldRs(last.opcode)),
                 SignExt16(FieldImm(last.opcode)))

\* C9: LH, LHU, SH at an odd address and LW, SW at an address that is not a
\* multiple of 4 raise AddressErrorLoad / AddressErrorStore with BadVaddr the
\* effective address, and change no general register and no memory byte.
C9_MisalignedAccess ==
    (/\ last.kind = "step"
     /\ last.fetched
     /\ \/ Arm(last.opcode) \in {"LH", "LHU", "SH"} /\ ~is_multiple_of(LastEffAddr, 2)
        \/ Arm(last.opcode) \in {"LW", "SW"} /\ ~is_multiple_of(LastEffAddr, 4))
        => /\ ~last.panic
           /\ last.outcome = "Err"
           /\ last.exc = (IF Arm(last.opcode) \in {"SH", "SW"}
                          THEN AddressErrorStore(LastEffAddr)
                          ELSE AddressErrorLoad(LastEffAddr))
           /\ cop0.badvaddr = LastEffAddr
           /\ registers.registers = last.pre.registers.registers
           /\ Memory(bus) = Memory(last.pre.bus)

\* The operands of the ADD, ADDI or SUB the last step executed, and whether
\* the two's-complement result leaves the 32-bit signed range.
LastLeft == read(last.pre.registers, FieldRs(last.opcode))

LastRight ==
    IF Arm(last.opcode) = "ADDI" THEN SignExt16(FieldImm(last.opcode))
    ELSE read(last.pre.registers, FieldRt(last.opcode))

LastDest ==
    IF Arm(last.opcode) = "ADDI" THEN FieldRt(last.opcode) ELSE FieldRd(last.opcode)

SignedOverflow ==
    IF Arm(last.opcode) = "SUB"
    THEN IsNeg(LastLeft) # IsNeg(LastRight)
         /\ IsNeg(wrapping_sub(LastLeft, LastRight)) # IsNeg(LastLeft)
    ELSE IsNeg(LastLeft) = IsNeg(LastRight)
         /\ IsNeg(wrapping_add(LastLeft, LastRight)) # IsNeg(LastLeft)

\* C10: when ADD, ADDI or SUB overflows, ArithmeticOverflow is raised, the
\* destination register keeps its value, EPC is the PC of the instruction
\* and SR.IEc is 0.
C10_OverflowKeepsDestination ==
    (/\ last.kind = "step"
     /\ last.fetched
     /\ ~last.in_delay_slot
     /\ Arm(last.opcode) \in {"ADD", "ADDI", "SUB"}
     /\ SignedOverflow)
        => /\ ~last.panic
           /\ last.outcome = "Err"
           /\ last.exc = ArithmeticOverflow
           /\ read(registers, LastDest) = read(last.pre.registers, LastDest)
           /\ cop0.epc = last.fetch_pc
           /\ WBit(cop0.sr, 0) = 0

\* C11: ADD, ADDI and SUB raise ArithmeticOverflow exactly when the
\* two's-complement result overflows as a signed value, not on unsigned
\* carry-out; (-1) + (-1) does not raise.
C11_OverflowCondition ==
    (/\ last.kind = "step"
     /\ last.fetched
     /\ Arm(last.opcode) \in {"ADD", "ADDI", "SUB"})
        => /\ ~last.panic
           /\ (last.outcome = "Err" /\ last.exc = ArithmeticOverflow) <=> SignedOverflow

\* The MIPS I encodings of ADDU, SUBU (SPECIAL, funct 0x21, 0x23) and ADDIU
\* (primary opcode 0x09).
IsADDU(op) == Hi(op) \div 1024 = 0 /\ Lo(op) % 2048 = 33

IsSUBU(op) == Hi(op) \div 1024 = 0 /\ Lo(op) % 2048 = 35

IsADDIU(op) == Hi(op) \div 1024 = 9

\* The value ADDU, SUBU or ADDIU is to leave in its destination.
WrappedResult(op, r) ==
    IF IsADDIU(op) THEN wrapping_add(read(r, FieldRs(op)), SignExt16(FieldImm(op)))
    ELSE IF IsSUBU(op) THEN wrapping_sub(read(r, FieldRs(op)), read(r, FieldRt(op)))
    ELSE wrapping_add(read(r, FieldRs(op)), read(r, FieldRt(op)))

\* C12: ADDU, ADDIU and SUBU raise no exception for any operand values and
\* write (a + b) mod 2^32, respectively (a - b) mod 2^32, to the destination.
C12_WrappingNeverTraps ==
    (/\ last.kind = "step"
     /\ last.fetched
     /\ IsADDU(last.opcode) \/ IsSUBU(last.opcode) \/ IsADDIU(last.opcode))
        => /\ ~last.panic
           /\ last.outcome = "Ok"
           /\ LET dest == IF IsADDIU(last.opcode) THEN FieldRt(last.opcode)
                          ELSE FieldRd(last.opcode)
              IN  dest # 0 =>
                      read(registers, dest) = WrappedResult(last.opcode, last.pre.registers)

\* C13: after any sequence of instructions, including ones that name
\* register 0 as destination, a read of R0 returns 0 (and the word stored
\* for R0 is 0).
C13_R0IsZero ==
    ~halted => read(registers, 0) = Zero32 /\ registers.registers[0] = Zero32

\* An instruction with destination R0 and a non-zero result has completed.
C13_Witness ==
    /\ Stepped
    /\ last.opcode = ADDU_R0_R1_R1
    /\ last.outcome = "Ok"
    /\ WNonZero(read(last.pre.registers, 1))
    /\ read(registers, 0) = Zero32

\* C14: for every index i in 1..=31, R31 included, and every value v,
\* write(i, v) does not halt, a read(i) after it returns v, and every other
\* register is unchanged.
C14_RegisterRoundTrip ==
    (last.kind = "write" /\ last.reg \in 1..31)
        => /\ ~last.panic
           /\ ~halted
           /\ registers.registers[last.reg] = last.val
           /\ \A j \in (0..31) \ {last.reg} :
                  registers.registers[j] = last.pre.registers[j]

\* C15: push_interrupt followed at once by pop_interrupt restores the low
\* six bits of SR and leaves every other bit of SR unchanged.
C15_SrStackRoundTrip ==
    (last.kind = "pop" /\ last.prev_kind = "push") => cop0.sr = last.prev_pre

\* Whether the last tick hit the at-max condition (mode bit 5 set and the
\* counter at 0xFFFF) or the at-target condition (mode bit 4 set and the
\* counter at the target), the counter being the one the tick arrived at.
AtMaxHit == (last.pre.mode \div 32) % 2 = 1 /\ timer.counter = 65535

AtTargetHit == (last.pre.mode \div 16) % 2 = 1 /\ timer.counter = timer.target_value

\* C16 as claimed: if tick() returns true then allow_irq was true and exactly
\* one of the at-max and at-target conditions was hit on that tick; if
\* neither was hit or allow_irq was false, tick() returns false.
C16_IrqExactlyOne ==
    last.kind = "tick" =>
        /\ last.irq => last.pre.allow_irq /\ (AtMaxHit # AtTargetHit)
        /\ (~(AtMaxHit \/ AtTargetHit) \/ ~last.pre.allow_irq) => ~last.irq

\* C16 amended: tick() returns true exactly when allow_irq was true and at
\* least one of the at-max and at-target conditions was hit on that tick.
C16_IrqSound ==
    last.kind = "tick" =>
        (last.irq <=> last.pre.allow_irq /\ (AtMaxHit \/ AtTargetHit))

\* A tick that hit both conditions at once and returned true.
C16_Witness ==
    /\ last.kind = "tick"
    /\ last.irq
    /\ last.pre.allow_irq
    /\ AtMaxHit
    /\ AtTargetHit

\* C17: with the repeat bit (mode bit 6) off, the tick that raises an IRQ
\* sets allow_irq to false and no later tick returns true until the mode is
\* written again; with the repeat bit on, a tick that does not raise leaves
\* allow_irq true; with mode 0x20 the tick from 0xFFFE to 0xFFFF returns true.
C17_OneShotAndRepeat ==
    last.kind = "tick" =>
        /\ (last.irq /\ (last.pre.mode \div 64) % 2 = 0) => ~timer.allow_irq
        /\ last.spent => ~last.irq
        /\ (~last.irq /\ (last.pre.mode \div 64) % 2 = 1) => timer.allow_irq
        /\ (last.pre.mode = 32 /\ last.pre.counter = 65534 /\ last.pre.allow_irq)
               => last.irq

\* The CPU to VRAM blit the GP0 words written so far ask for: command word
\* of class 5, destination (BlitX, BlitY), size (BlitW, BlitH), and the
\* number of pixels received before the last word.
InBlit ==
    /\ last.kind = "gp0"
    /\ Len(last.words) >= 3
    /\ Hi(last.words[1]) \div 8192 = 5

BlitX == Lo(last.words[2]) % 1024

BlitY == Hi(last.words[2]) % 512

BlitW == IF Lo(last.words[3]) % 1024 = 0 THEN 1024 ELSE Lo(last.words[3]) % 1024

BlitH == IF Hi(last.words[3]) % 512 = 0 THEN 512 ELSE Hi(last.words[3]) % 512

PixelsBefore == 2 * (Len(last.words) - 4)

\* The last word is a data word of the blit.
InBlitData == InBlit /\ Len(last.words) >= 4 /\ PixelsBefore < BlitW * BlitH

\* VRAM with the k-th pixel of the blit stored little-endian.
PutPixel(vram, k, halfword) ==
    LET addr == 2 * (1024 * ((BlitY + (k \div BlitW)) % 512)
                     + ((BlitX + (k % BlitW)) % 1024))
    IN  ArrPut(ArrPut(vram, addr, halfword % 256), addr + 1, halfword \div 256)

\* C18: a data word of a CPU to VRAM blit to (x, y) of size (w, h) stores
\* its pixels k and k + 1 (row k div w, column k mod w) little-endian at
\* VRAM pixel ((x + col) mod 1024, (y + row) mod 512), at most w*h pixels
\* in all, and changes no other VRAM byte.
C18_BlitPixelPlacement ==
    InBlitData =>
        /\ ~last.panic
        /\ gpu.vram =
               LET v0 == PutPixel(last.pre.vram, PixelsBefore, Lo(last.val))
               IN  IF PixelsBefore + 1 < BlitW * BlitH
                   THEN PutPixel(v0, PixelsBefore + 1, Hi(last.val))
                   ELSE v0

\* C19: after the class-5 command word and the two parameter words the GP0
\* state is ReceivingData; it stays so while fewer than w*h pixels have been
\* received and is WaitingForCommand once all are, without halting; the 2x1
\* blit to (0, 0) with data word 0xBBBBAAAA leaves 0xAA, 0xAA, 0xBB, 0xBB in
\* VRAM bytes 0..3.
C19_BlitProtocol ==
    /\ (InBlit /\ Len(last.words) = 3)
           => ~last.panic /\ gpu.gp0_state.tag = "ReceivingData"
    /\ InBlitData
           => /\ ~last.panic
              /\ gpu.gp0_state.tag = (IF PixelsBefore + 2 >= BlitW * BlitH
                                      THEN "WaitingForCommand" ELSE "ReceivingData")
    /\ (last.kind = "gp0"
        /\ last.words = <<GP0_BLIT, XY_0_0, WH_2_1, DATA_BBBBAAAA>>)
           => /\ gpu.gp0_state = WaitingForCommand
              /\ <<ArrGet(gpu.vram, 0), ArrGet(gpu.vram, 1),
                   ArrGet(gpu.vram, 2), ArrGet(gpu.vram, 3)>> = <<170, 170, 187, 187>>

\* C20: a word read or write at any address either performs the access or
\* yields BusErrorLoad (reads) / BusErrorStore (writes) with the bus left as
\* it was; no address halts the emulator.
C20_BusAccessTotal ==
    last.kind \in {"read_word", "write_word"} =>
        /\ last.tag # "Panic"
        /\ ~halted
        /\ last.tag = "Err" =>
               /\ bus = last.pre
               /\ last.exc.kind = (IF last.kind = "read_word" THEN "BusErrorLoad"
                                   ELSE "BusErrorStore")

\* The mirrored regions of the address map: the bases of the aliases of
\* each, and the number of bytes each alias spans.
MirrorBases ==
    [kernel |-> {\h0000, \h8000, \hA000}, ram |-> {\h0010, \h8010, \hA010},
     scratchpad |-> {\h1F80, \h9F80}, bios |-> {\h1FC0, \h9FC0, \hBFC0}]

MirrorSpan ==
    [kernel |-> 65536, ram |-> 1048576, scratchpad |-> 1024, bios |-> 524288]

\* The aliases of addr: every address at the same offset from a base of
\* the mirrored region addr lies in; empty outside the mirrored regions.
Aliases(addr) ==
    UNION {{W(base + (Hi(addr) - b), Lo(addr)) : base \in MirrorBases[n]} :
           <<n, b>> \in {<<m, c>> \in UNION {{m} \X MirrorBases[m] : m \in DOMAIN MirrorBases} :
                            /\ Hi(addr) >= c
                            /\ Hi(addr) - c < 64
                            /\ (Hi(addr) - c) * 65536 + Lo(addr) < MirrorSpan[m]}}

\* C21: a byte written through one alias of a mirrored region is stored and
\* reads back unchanged through every alias at the same offset.
C21_SegmentMirroring ==
    (last.kind = "write_byte" /\ Aliases(last.addr) # {}) =>
        /\ last.tag = "Ok"
        /\ \A a \in Aliases(last.addr) : mem_read_byte(bus, a) = Ok(last.val)

\* The byte lane of the IRQ register an address of 0x1F801070..0x1F801077
\* selects: bits 8k..8k+7 of the status word (k = addr - 0x1F801070) or of
\* the mask word (k = addr - 0x1F801074).
IrqLane(b, addr) ==
    IF Lo(addr) < \h1074 THEN to_le_bytes(b.interrupt_status)[Lo(addr) - \h1070 + 1]
    ELSE to_le_bytes(b.interrupt_mask)[Lo(addr) - \h1074 + 1]

IsIrqAddr(addr) == Hi(addr) = \h1F80 /\ Lo(addr) >= \h1070 /\ Lo(addr) <= \h1077

\* C24: a write to I_MASK succeeds and reads back, and a byte read at
\* offset k of I_STAT or I_MASK returns bits 8k..8k+7 of the register.
C24_IrqRegistersByteAddressable ==
    /\ (last.kind = "write_byte" /\ IsIrqAddr(last.addr) /\ Lo(last.addr) >= \h1074) =>
           /\ last.tag = "Ok"
           /\ mem_read_byte(bus, last.addr) = Ok(last.val)
    /\ (last.kind = "read_byte" /\ IsIrqAddr(last.addr)) =>
           /\ last.tag = "Ok"
           /\ last.val = IrqLane(last.pre, last.addr)

\* The MIPS I fields that select the operation: bits 31-26 and bits 5-0.
Primary(op) == Hi(op) \div 1024

Funct(op) == Lo(op) % 64

\* A step that fetched a word and handed it to execute_opcode.
Executed == last.kind = "step" /\ last.fetched /\ last.outcome # "None"

\* Primary opcodes MIPS I leaves undefined.
ReservedPrimaries == (\h14 .. \h1F) \cup (\h3C .. \h3F)

\* C22: executing any instruction word returns success or one exception
\* and never halts; undefined words raise Reserved, COP1 and COP3 words
\* raise CoprocessorUnusable.
C22_ExecutionTotal ==
    Executed =>
        /\ last.outcome \in {"Ok", "Err"}
        /\ ~halted
        /\ Primary(last.opcode) \in {\h11, \h13} =>
               last.outcome = "Err" /\ last.exc = CoprocessorUnusable
        /\ Primary(last.opcode) \in ReservedPrimaries =>
               last.outcome = "Err" /\ last.exc = Reserved

\* A step whose fetch, at the PC the step started with, is refused by the bus.
FetchRefused ==
    /\ last.kind = "step"
    /\ ~last.irq
    /\ is_multiple_of(last.pre.registers.program_counter, 4)
    /\ IsErr(mem_read_word(overflow_checks, last.pre.bus,
                           last.pre.registers.program_counter))

\* C23: a bus error on the instruction fetch is delivered as an exception
\* (the prologue runs, PC becomes the exception vector); the emulator does
\* not halt.
C23_FetchBusErrorIsException ==
    FetchRefused =>
        /\ ~halted
        /\ Len(last.deliveries) = 1
        /\ PC = (IF get_bev(last.pre.cop0.sr) THEN W(\hBFC0, \h0180)
                 ELSE W(\h8000, \h0080))

\* The three timers of a bus.
Timers(b) == <<b.timer0, b.timer1, b.timer2>>

\* The CPU the fetched word is executed on when the bus has not ticked yet:
\* the registers and bus the step started with, the delayed branch taken.
Unticked == [last.pre EXCEPT !.registers.delayed_branch = None]

\* What executing the fetched word on the unticked CPU returns.
ExecutedFirst == execute_opcode(overflow_checks, Unticked, last.opcode)

\* C25: a step that fetches and executes an instruction advances each timer
\* by exactly 2 ticks and the GPU cycle counter by exactly 2, after the
\* instruction's side effects (the instruction sees and writes the timers
\* as they were before the ticks); a step that does not fetch advances
\* neither.
C25_TickAccounting ==
    [][/\ (last'.kind = "step" /\ last'.fetched /\ last'.outcome \in {"Ok", "Err"}) =>
              \A x \in {ExecutedFirst'} : \A b \in {x.cpu.bus} :
                  /\ gpu'.counter = gpu.counter + 2
                  /\ Timers(bus') = Timers(tick(b, 2))
                  /\ registers'.registers = x.cpu.registers.registers
       /\ (last'.kind = "step" /\ ~last'.fetched) =>
              /\ gpu' = gpu
              /\ Timers(bus') = Timers(bus)]_vars

\* A word that, executed without an exception, may set SR bit 0:
\* MTC0 to COP0 register 12, or RFE.
SetsIEc(op) ==
    \/ op = RFE
    \/ (Hi(op) \div 32 = \h204 /\ Lo(op) \div 2048 = 12 /\ Lo(op) % 2048 = 0)

\* C26: a step that delivers an exception leaves SR.IEc = 0 unless the word
\* it then executes is an MTC0 to SR or an RFE; a step that starts with
\* IEc = 0 delivers no Interrupt; and IEc goes from 0 to 1 only in a step
\* that executes an MTC0 to SR or an RFE.
C26_NoNestedInterrupts ==
    [][/\ (last'.kind = "step" /\ ~last'.panic /\ last'.deliveries # <<>>
           /\ ~(last'.outcome = "Ok" /\ SetsIEc(last'.opcode))) =>
              ~interrupt_enabled(cop0'.sr)
       /\ (last'.kind = "step" /\ ~interrupt_enabled(cop0.sr)) =>
              /\ ~last'.irq
              /\ \A i \in 1..Len(last'.deliveries) :
                     last'.deliveries[i].exception # Interrupt
       /\ (~interrupt_enabled(cop0.sr) /\ interrupt_enabled(cop0'.sr)) =>
              last'.outcome = "Ok" /\ SetsIEc(last'.opcode)]_vars

\* An interrupt is pending and unmasked, a delivery has pushed IEp = 1, and
\* the step that found SR.IEc = 0 delivered nothing.
C26_Witness ==
    /\ Stepped
    /\ last.fetched
    /\ last.deliveries = <<>>
    /\ ~interrupt_enabled(last.pre.cop0.sr)
    /\ BitAnd(Lo(last.pre.cop0.sr), \h4) = 4
    /\ WNonZero(WAnd(interrupt_mask(last.pre.cop0.sr),
                     interrupt_pending(last.pre.cop0.cause)))

\* SR bits 0-3: IEc, KUc, IEp, KUp.
ModeBits(sr) == Lo(sr) % 16

\* The SR an exception delivery found, for the last delivery of a step.
DeliveredFrom(obs) == obs.deliveries[Len(obs.deliveries)].before.sr

\* C27: when a step delivers an exception and writes SR no more, and the
\* next step executes RFE, SR bits 0-3 are again what they were before the
\* delivery; likewise when RFE is the word the delivering step itself goes
\* on to execute.  The RFE raises no exception and PC becomes the next PC,
\* not EPC.
C27_ExceptionThenRfe ==
    [][/\ (/\ last.kind = "step" /\ ~last.panic /\ last.deliveries # <<>>
           /\ (last.outcome = "Ok" => ~SetsIEc(last.opcode))
           /\ last'.kind = "step" /\ last'.fetched /\ last'.opcode = RFE
           /\ last'.deliveries = <<>>) =>
              /\ last'.outcome = "Ok"
              /\ ~halted'
              /\ ModeBits(cop0'.sr) = ModeBits(DeliveredFrom(last))
              /\ registers'.program_counter =
                     wrapping_add(last'.fetch_pc, W(0, 4))
       /\ (/\ last'.kind = "step" /\ last'.fetched /\ last'.opcode = RFE
           /\ last'.deliveries # <<>>) =>
              /\ last'.outcome = "Ok"
              /\ ~halted'
              /\ ModeBits(cop0'.sr) = ModeBits(DeliveredFrom(last'))
              /\ registers'.program_counter =
                     wrapping_add(last'.fetch_pc, W(0, 4))]_vars

\* RFE executed at the exception vector right after a Syscall delivery that
\* found IEc set.
C27_Witness ==
    /\ Stepped
    /\ last.opcode = RFE
    /\ last.fetch_pc = W(\h8000, \h0080)
    /\ last.outcome = "Ok"
    /\ last.deliveries = <<>>
    /\ BitAnd(Lo(last.pre.cop0.cause), \h7C) = 8 * 4
    /\ ModeBits(cop0.sr) % 2 = 1

\* C28: JR with a register value whose low 2 bits are non-zero raises
\* AddressErrorLoad with that value as the faulting address and schedules
\* no delayed branch.
C28_JrMisaligned ==
    (/\ Executed
     /\ Primary(last.opcode) = 0 /\ Funct(last.opcode) = 8
     /\ Lo(LastLeft) % 4 # 0) =>
        /\ last.outcome = "Err"
        /\ last.exc = AddressErrorLoad(LastLeft)
        /\ registers.delayed_branch = None

\* (PC & 0xF0000000) | (imm26 << 2) for the word and the PC it was fetched at.
JumpTargetOf(pc, op) ==
    W((Hi(pc) \div 4096) * 4096 + (Hi(op) % 1024) * 4 + Lo(op) \div 16384,
      (Lo(op) * 4) % 65536)

\* C29: J and JAL schedule the delayed branch (PC & 0xF0000000) | (imm26 << 2);
\* JAL also sets R31 to PC + 8.
C29_JumpTarget ==
    (Executed /\ Primary(last.opcode) \in {2, 3}) =>
        /\ last.outcome = "Ok"
        /\ registers.delayed_branch = Some(JumpTargetOf(last.fetch_pc, last.opcode))
        /\ Primary(last.opcode) = 3 =>
               registers.registers[31] = wrapping_add(last.fetch_pc, W(0, 8))

\* C30: the operation is selected by bits 31-26 alone (0x08 ADDI, 0x09 ADDIU,
\* 0x04 BEQ, whatever rs, rt and the immediate are), and for SPECIAL by the
\* funct field, SLTU at funct 0x2B.
C30_DecodeByFields ==
    Executed =>
        /\ Primary(last.opcode) = 8 => Arm(last.opcode) = "ADDI"
        /\ Primary(last.opcode) = 9 => Arm(last.opcode) = "ADDIU"
        /\ Primary(last.opcode) = 4 => Arm(last.opcode) = "BEQ"
        /\ (Primary(last.opcode) = 0 /\ Funct(last.opcode) = \h2B) =>
               Arm(last.opcode) = "SLTU"

\* The values of rs and rt the executed word found.
LastRs == read(last.pre.registers, FieldRs(last.opcode))

LastRt == read(last.pre.registers, FieldRt(last.opcode))

MinusOne == W(\hFFFF, \hFFFF)

MinInt == W(\h8000, \h0000)

\* C31: DIV and DIVU raise nothing and do not halt; with divisor 0 they set
\* HI to the dividend and LO to 0xFFFFFFFF (DIVU) or to +1 / -1 (DIV);
\* otherwise LO is the truncated quotient and HI the remainder.
C31_DivisionTotal ==
    (Executed /\ Primary(last.opcode) = 0 /\ Funct(last.opcode) \in {\h1A, \h1B}) =>
        /\ last.outcome = "Ok"
        /\ ~halted
        /\ LastRt = Zero32 =>
               /\ registers.hi = LastRs
               /\ Funct(last.opcode) = \h1B => registers.lo = MinusOne
               /\ Funct(last.opcode) = \h1A => registers.lo \in {W(0, 1), MinusOne}
        /\ (LastRt # Zero32 /\ Funct(last.opcode) = \h1B) =>
               /\ registers.lo = udiv(LastRs, LastRt)
               /\ registers.hi = urem(LastRs, LastRt)
        /\ (LastRt # Zero32 /\ Funct(last.opcode) = \h1A) =>
               IF LastRs = MinInt /\ LastRt = MinusOne
               THEN registers.lo = MinInt /\ registers.hi = Zero32
               ELSE /\ registers.lo = sdiv(LastRs, LastRt)
                    /\ registers.hi = srem(LastRs, LastRt)

\* C32: SLLV, SRLV and SRAV shift rt by the low 5 bits of rs.
C32_VariableShifts ==
    (Executed /\ Primary(last.opcode) = 0 /\ Lo(last.opcode) % 2048 \in {4, 6, 7}) =>
        /\ last.outcome = "Ok"
        /\ registers.registers[FieldRd(last.opcode)] =
               CASE Funct(last.opcode) = 4 -> WShl(LastRt, Lo(LastRs) % 32)
                 [] Funct(last.opcode) = 6 -> WShr(LastRt, Lo(LastRs) % 32)
                 [] Funct(last.opcode) = 7 -> WSar(LastRt, Lo(LastRs) % 32)

\* The second word of a two-word idiom has just executed after the first.
IdiomDone(first, second) ==
    /\ steps = 2
    /\ Executed
    /\ last.opcode = second
    /\ last.fetch_pc = W(0, \h1004)
    /\ last.pre.registers.program_counter = W(0, \h1004)
    /\ ArrGet(bus.kernel, \h1000) = to_le_bytes(first)[1]
    /\ ArrGet(bus.kernel, \h1003) = to_le_bytes(first)[4]

\* The base register R1 addresses four bytes of kernel memory.
BaseInMemory == Hi(registers.registers[1]) = 0 /\ Lo(registers.registers[1]) < \h4000

BaseIndex == Lo(registers.registers[1])

\* C33: LWL rt,3(a); LWR rt,0(a) leaves in rt the little-endian word at
\* a..a+3 whatever the alignment of a and the old value of rt; SWL rt,3(a);
\* SWR rt,0(a) stores the four bytes of rt at a..a+3 and changes no other
\* byte.
C33_UnalignedIdioms ==
    /\ (IdiomDone(LWL_R2_R1_3, LWR_R2_R1_0) /\ BaseInMemory) =>
           registers.registers[2] =
               from_le_bytes(<<ArrGet(bus.kernel, BaseIndex),
                               ArrGet(bus.kernel, BaseIndex + 1),
                               ArrGet(bus.kernel, BaseIndex + 2),
                               ArrGet(bus.kernel, BaseIndex + 3)>>)
    /\ (IdiomDone(SWL_R2_R1_3, SWR_R2_R1_0) /\ BaseInMemory) =>
           bus.kernel =
               LoadWord(InstrKernel(<<SWL_R2_R1_3, SWR_R2_R1_0>>), BaseIndex,
                        registers.registers[2])

IsMFC0(op) == Hi(op) \div 32 = \h200 /\ Lo(op) % 2048 = 0

IsMTC0(op) == Hi(op) \div 32 = \h204 /\ Lo(op) % 2048 = 0

\* C34: MFC0 from COP0 register 0, 1, 2, 4 or 10 raises Reserved and leaves
\* the destination register as it was; from PRID (15) it returns 2 and from
\* registers 16..31 it returns 0.
C34_Mfc0ReservedAndFixed ==
    (Executed /\ IsMFC0(last.opcode)) =>
        /\ FieldRd(last.opcode) \in {0, 1, 2, 4, 10} =>
               /\ last.outcome = "Err"
               /\ last.exc = Reserved
               /\ registers.registers[FieldRt(last.opcode)] = LastRt
        /\ FieldRd(last.opcode) = 15 =>
               /\ last.outcome = "Ok"
               /\ registers.registers[FieldRt(last.opcode)] = W(0, 2)
        /\ FieldRd(last.opcode) \in 16..31 =>
               /\ last.outcome = "Ok"
               /\ registers.registers[FieldRt(last.opcode)] = Zero32

\* The coprocessor as the executing step found it, after step_instruction
\* latched Cause bit 10 from I_STAT & I_MASK.
LatchedCop0 ==
    [last.pre.cop0 EXCEPT !.cause =
        set_interrupt_pending(@,
            WNonZero(WAnd(last.pre.bus.interrupt_status, last.pre.bus.interrupt_mask)))]

\* C35: MTC0 stores only writable bits: SR becomes v & 0x507FFF2F, Cause
\* changes only in bits 8-9 (which take those of v), and writes to Target (6),
\* BadVaddr (8), EPC (14) and PRID (15) change nothing; none of them raises an
\* exception.
C35_Mtc0WritableBits ==
    (Executed /\ IsMTC0(last.opcode) /\ FieldRd(last.opcode) \in {6, 8, 12, 13, 14, 15}) =>
        /\ last.outcome = "Ok"
        /\ last.deliveries = <<>>
        /\ FieldRd(last.opcode) = 12 =>
               cop0 = [LatchedCop0 EXCEPT !.sr = WAnd(LastRt, W(\h507F, \hFF2F))]
        /\ FieldRd(last.opcode) = 13 =>
               cop0 = [LatchedCop0 EXCEPT !.cause =
                          WOr(WAnd(@, W(\hFFFF, \hFCFF)), WAnd(LastRt, W(0, \h0300)))]
        /\ FieldRd(last.opcode) \in {6, 8, 14, 15} => cop0 = LatchedCop0

\* MTC0 has written a value with read-only bits set to SR, to Cause and to a
\* read-only register of a coprocessor holding non-zero values.
C35_Witness ==
    /\ Executed
    /\ IsMTC0(last.opcode)
    /\ LastRt = W(\hFFFF, \hFFF9)
    /\ last.pre.cop0.epc = W(0, \h1ABC)
    /\ \/ FieldRd(last.opcode) = 12 /\ cop0.sr = W(\h507F, \hFF29)
       \/ FieldRd(last.opcode) = 13 /\ cop0.cause = W(\h8000, \h0120)
       \/ FieldRd(last.opcode) = 14 /\ cop0.epc = W(0, \h1ABC)

\* C36: write_to_mode(v) leaves counter = 0, allow_irq = true and
\* mode = (v & 0x3FF) with bit 10 forced to 1.
C36_ModeWriteResets ==
    last.kind = "write_to_mode" =>
        /\ timer.counter = 0
        /\ timer.allow_irq
        /\ \E v \in TimerModes : timer.mode = BitOr(BitAnd(v, \h3FF), \h400)

\* The timer and the byte offset within its registers a timer address names.
IoTimer(addr) == (Lo(addr) - \h1100) \div 16

IoOffset(addr) == Lo(addr) % 16

\* The 16-bit register at byte offsets 0-1 (counter) or 8-9 (target).
IoField(t, off) == IF off < 4 THEN t.counter ELSE t.target_value

\* C37: a byte write to the low or high byte of a timer's counter or target
\* replaces exactly that lane and preserves the other lane, the timer's other
\* fields and the other timers; reads return the lanes, and bytes +2 and +3
\* read 0.
C37_TimerByteLanes ==
    /\ (last.kind = "write_byte" /\ IoOffset(last.addr) \in {0, 1, 8, 9}) =>
           /\ last.tag = "Ok"
           /\ bus =
                 SetTimer(last.pre, IoTimer(last.addr),
                     [TimerOf(last.pre, IoTimer(last.addr)) EXCEPT
                         ![IF IoOffset(last.addr) < 4 THEN "counter" ELSE "target_value"] =
                             IF IoOffset(last.addr) % 2 = 0
                             THEN (@ \div 256) * 256 + last.val
                             ELSE last.val * 256 + (@ % 256)])
    /\ (last.kind = "read_byte" /\ IoOffset(last.addr) \in {0, 1, 2, 3, 8, 9, 10, 11}) =>
           /\ last.tag = "Ok"
           /\ last.val =
                 CASE IoOffset(last.addr) % 4 = 0 ->
                          IoField(TimerOf(bus, IoTimer(last.addr)), IoOffset(last.addr)) % 256
                   [] IoOffset(last.addr) % 4 = 1 ->
                          IoField(TimerOf(bus, IoTimer(last.addr)), IoOffset(last.addr)) \div 256
                   [] OTHER -> 0

\* The last GP0 word was the one parameter of a rectangle command.
RectDrawn ==
    /\ last.kind = "gp0"
    /\ ~last.panic
    /\ last.pre.gp0_state = ReceivingParams(3, 1)
    /\ Len(last.words) >= 2

RectCommand == last.words[Len(last.words) - 1]

\* RGB555 of the command's 24-bit colour: each channel shifted right by 3.
RectPixel ==
    (Lo(RectCommand) % 256) \div 8 + ((Lo(RectCommand) \div 256) \div 8) * 32
        + ((Hi(RectCommand) % 256) \div 8) * 1024

RectAddr == 2 * (1024 * (Hi(last.val) % 512) + (Lo(last.val) % 1024))

\* C38: after a class-3 command C and one parameter P the pixel at (P.x, P.y)
\* holds the RGB555 colour of C, little-endian, no other VRAM byte has
\* changed, and the state is WaitingForCommand again.
C38_RectanglePixel ==
    RectDrawn =>
        /\ gpu.vram = ArrPut(ArrPut(last.pre.vram, RectAddr, RectPixel % 256),
                             RectAddr + 1, RectPixel \div 256)
        /\ gpu.gp0_state = WaitingForCommand

\* The cycles the last tick added.
TickedCycles == AsIndex(last.val)

\* The last tick took the sum of cycles across a multiple of the frame length.
TickCrossed ==
    last.cycles \div FrameCycles > (last.cycles - TickedCycles) \div FrameCycles

\* C39: after any ticks of at most 564480 cycles each the counter is below
\* 564480 and equals the sum of the cycles modulo 564480; frame_is_ready is
\* set by the ticks that take the sum across a multiple of 564480 and by no
\* other tick.
C39_FramePacing ==
    /\ gpu.counter < FrameCycles
    /\ gpu.counter = last.cycles % FrameCycles
    /\ last.kind = "tick" =>
           /\ TickCrossed => gpu.frame_is_ready
           /\ (gpu.frame_is_ready /\ ~last.pre.frame_is_ready) => TickCrossed

\* A tick of less than a frame has crossed the frame boundary with cycles
\* left over.
C39_Witness ==
    /\ last.kind = "tick"
    /\ TickedCycles < FrameCycles
    /\ last.cycles > FrameCycles
    /\ TickCrossed
    /\ gpu.frame_is_ready
    /\ gpu.counter > 0

\* C40: once frame_is_ready is true it stays true across ticks; the GPU
\* never clears it.
C40_FrameReadyHeld ==
    (last.kind = "tick" /\ last.pre.frame_is_ready) => gpu.frame_is_ready

====
